---- MODULE Spec2Model ----
(***************************************************************************)
(* UltraHonk verifier (contracts/ultrahonk-verifier) as a state machine.   *)
(*                                                                         *)
(* A verifier object is built from a VK blob by UltraHonkVerifier::new and *)
(* then asked to verify (proof blob, public-inputs blob) pairs.  Blobs are *)
(* modelled by their length and by the content of the regions the code     *)
(* reads positionally.  u64/usize values keep their width: they are four   *)
(* 16-bit limbs, little-endian, and arithmetic on them overflows as Rust   *)
(* arithmetic does (a panic under overflow checks, a wrap without them).   *)
(* The scalar field, the Fiat-Shamir transcript, the relations and         *)
(* Shplemini are not among the source files; they are modelled from the    *)
(* design document over a scaled-down prime field.                         *)
(***************************************************************************)
EXTENDS Integers, Sequences, FiniteSets, TLC

VARIABLES
    build,      \* how the crate was compiled: overflow checks, pointer width
    salt,       \* which hash function stands in for keccak256
    vk_blob,    \* the blob last given to UltraHonkVerifier::new
    new_out,    \* what that call returned
    verifier,   \* the UltraHonkVerifier it built (self), or NoVerifier
    call,       \* the arguments of the last verify call
    out,        \* what that call returned, with the stages it went through
    accepted,   \* the first VK blob under which the (proof, pi) of call verified
    history,    \* the verify calls logged on this verifier, in order, with results
    enc_v,          \* the u32 last given to bytes32_from_u32
    enc_bytes,      \* the 32 bytes compared: its encoding, or that with one bit flipped
    enc_expected,   \* the u32 a binding check expected, or NoU32
    enc_out,        \* what verify_u32_field returned on <<enc_bytes>>
    zk_admin,       \* DataKey::Admin of the Groth16 verifier contract
    zk_vks,         \* DataKey::Vk(circuit_id): the stored VK, or NoVk
    zk_call,        \* the last call to the Groth16 verifier contract
    zk_out,         \* what it returned, with the host operations it made
    zk_last,  \* per circuit, the VK of the last store_vk the admin made and signed
    game,       \* the game contract's storage
    g_call,     \* the last call to the game contract
    g_out,      \* what it returned
    g_before,   \* the storage before it
    g_locked,   \* lock_secure_mode has succeeded
    g_moves,    \* moves accepted while the turn counter holds its value
    g_turns,    \* the last turn the model follows the game into
    calc_call,  \* a function of the verifier crate and the arguments it is applied to
    calc_out    \* what it returned, or NoResult before it has run

\* The state of the UltraHonk verifier and of its caller.
verifier_vars == <<build, salt, vk_blob, new_out, verifier, call, out, accepted, history>>

\* The state of the other contracts of the repository.
enc_vars == <<enc_v, enc_bytes, enc_expected, enc_out>>
zk_vars == <<zk_admin, zk_vks, zk_call, zk_out, zk_last>>
game_vars == <<game, g_call, g_out, g_before, g_locked, g_moves, g_turns>>
calc_vars == <<calc_call, calc_out>>
other_vars == <<enc_vars, zk_vars, game_vars, calc_vars>>

vars == <<verifier_vars, other_vars>>

----------------------------------------------------------------------------
(* Bounds of the model.                                                    *)

\* Largest well-formed log_circuit_size whose proofs are enumerated.
MaxLogN == 2
\* Hash functions 0..MaxSalt stand in for keccak256.
MaxSalt == 1
\* Largest number of 32-byte public inputs a caller supplies.
MaxProvided == 2
\* Largest number of verify calls logged on one verifier.
MaxCalls == 3
MaxTurn == 1
MaxMovesInTurn == 2
\* Last turn of a game followed until the battery is empty.
MaxLongTurn == 5
\* Most ledgers that close during a session.
MaxLedgers == 2
\* Most writes counted on one session key.
MaxWritesUsed == 2

----------------------------------------------------------------------------
(* Machine integers: u64 and usize as four 16-bit limbs, little-endian.    *)

LimbBase == 2 ^ 16

Limbs == 1..4

\* A number below 2^31 as a u64.
U64(n) == <<n % LimbBase, (n \div LimbBase) % LimbBase, 0, 0>>

U64Zero == <<0, 0, 0, 0>>
U64Max == <<LimbBase - 1, LimbBase - 1, LimbBase - 1, LimbBase - 1>>

\* 2^e for e in 0..63.
U64Pow2(e) == [i \in Limbs |-> IF i = (e \div 16) + 1 THEN 2 ^ (e % 16) ELSE 0]

\* a + b over 64 bits: the low 64 bits and the carry out.
WideAdd(a, b) ==
    LET s1 == a[1] + b[1]
        s2 == a[2] + b[2] + (s1 \div LimbBase)
        s3 == a[3] + b[3] + (s2 \div LimbBase)
        s4 == a[4] + b[4] + (s3 \div LimbBase)
    IN  [val |-> <<s1 % LimbBase, s2 % LimbBase, s3 % LimbBase, s4 % LimbBase>>,
         carry |-> s4 \div LimbBase]

\* a * k over 64 bits, k a small factor: the low 64 bits and the carry out.
WideMul(a, k) ==
    LET p1 == a[1] * k
        p2 == a[2] * k + (p1 \div LimbBase)
        p3 == a[3] * k + (p2 \div LimbBase)
        p4 == a[4] * k + (p3 \div LimbBase)
    IN  [val |-> <<p1 % LimbBase, p2 % LimbBase, p3 % LimbBase, p4 % LimbBase>>,
         carry |-> p4 \div LimbBase]

\* a - b over 64 bits: the low 64 bits and the borrow out.
WideSub(a, b) ==
    LET d1 == a[1] - b[1]
        b1 == IF d1 < 0 THEN 1 ELSE 0
        d2 == a[2] - b[2] - b1
        b2 == IF d2 < 0 THEN 1 ELSE 0
        d3 == a[3] - b[3] - b2
        b3 == IF d3 < 0 THEN 1 ELSE 0
        d4 == a[4] - b[4] - b3
        b4 == IF d4 < 0 THEN 1 ELSE 0
    IN  [val |-> <<d1 + b1 * LimbBase, d2 + b2 * LimbBase,
                   d3 + b3 * LimbBase, d4 + b4 * LimbBase>>,
         carry |-> b4]

\* a <= b for u64.
U64Le(a, b) == WideSub(b, a).carry = 0

\* The value of a u64 when it is below 2^31, else -1 (too large for any blob).
SmallValue(a) ==
    IF a[3] = 0 /\ a[4] = 0 /\ a[2] < 2 ^ 15 THEN a[1] + a[2] * LimbBase ELSE -1

\* `x as usize` for a u64 x: truncation to the pointer width.
AsUsize(b, x) == IF b.usize_bits = 32 THEN <<x[1], x[2], 0, 0>> ELSE x

\* The outcome of a usize operation whose exact result is w (low 64 bits and
\* carry): a panic under overflow checks when it does not fit the pointer
\* width, the wrapped value otherwise.
UsizeResult(b, w) ==
    LET fits == w.carry = 0 /\ (b.usize_bits = 64 \/ (w.val[3] = 0 /\ w.val[4] = 0))
    IN  [panic |-> ~fits /\ b.overflow_checks, val |-> AsUsize(b, w.val)]

\* The same for a u64 operation.
U64Result(b, w) == [panic |-> w.carry # 0 /\ b.overflow_checks, val |-> w.val]

Builds == [overflow_checks : BOOLEAN, usize_bits : {32, 64}]

----------------------------------------------------------------------------
(* Program constants.                                                      *)

PAIRING_POINTS_SIZE == 16
BATCHED_RELATION_PARTIAL_LENGTH == 8
NUMBER_OF_ENTITIES == 41
CONST_PROOF_SIZE_LOG_N == 28
\* load_vk_from_bytes: MIN_LEN = 96 + 28 * 64, and the padded variant.
MIN_LEN == 96 + 28 * 64
PADDED_LEN == MIN_LEN + 28 * 64
HASH_PREFIX_LEN == 32

----------------------------------------------------------------------------
(* Results.                                                                *)

Ok == [kind |-> "Ok", reason |-> ""]
Err(kind, reason) == [kind |-> kind, reason |-> reason]
InvalidInput(reason) == Err("InvalidInput", reason)
\* A faulty SumcheckFailed, which drops the reason verify_sumcheck gave.
SumcheckFailed_unspecific(reason) == Err("SumcheckFailed", "sumcheck failed")
SumcheckFailed(reason) == Err("SumcheckFailed", reason)
ShplonkFailed(reason) == Err("ShplonkFailed", reason)
Panic(reason) == Err("Panic", reason)
NoResult == [kind |-> "None", reason |-> ""]

----------------------------------------------------------------------------
(* VK blobs and their parsing.                                             *)
(*                                                                         *)
(* A VK blob is its length and the content of the regions new reads by     *)
(* position: bytes 0..31 (hash), and after them three 32-byte header slots *)
(* (24 bytes of padding, 8 bytes big-endian u64), 28 points, and in the    *)
(* 3680-byte variant another 1792 bytes.  pad, points and tail name the    *)
(* content of a region (0: as the reference prover writes it).             *)

\* load_vk_from_bytes on the payload of `blob` (the bytes after the prefix).
\* [none |-> TRUE] is None, panic is the shift overflowing.
load_vk_from_bytes(b, blob) ==
    LET len == blob.len - HASH_PREFIX_LEN
        log_circuit_size == blob.log_circuit_size
        shift_overflows == ~(log_circuit_size[2] = 0 /\ log_circuit_size[3] = 0
                             /\ log_circuit_size[4] = 0 /\ log_circuit_size[1] < 64)
    IN  IF len # MIN_LEN /\ len # PADDED_LEN
        THEN [none |-> TRUE, panic |-> FALSE]
        ELSE IF shift_overflows /\ b.overflow_checks
        THEN [none |-> FALSE, panic |-> TRUE]
        ELSE [none |-> FALSE, panic |-> FALSE,
              vk |-> [circuit_size |-> U64Pow2(log_circuit_size[1] % 64),
                      log_circuit_size |-> log_circuit_size,
                      public_inputs_size |-> blob.public_inputs_size,
                      pub_inputs_offset |-> blob.pub_inputs_offset,
                      points |-> blob.points]]

NoVerifier == [exists |-> FALSE]

\* UltraHonkVerifier::new: the result and the verifier built.
UltraHonkVerifier_new(b, blob) ==
    IF blob.len < HASH_PREFIX_LEN
    THEN [result |-> InvalidInput("vk too short for hash prefix"), self |-> NoVerifier]
    ELSE LET parsed == load_vk_from_bytes(b, blob)
         IN  IF parsed.none
             THEN [result |-> InvalidInput("vk parse error"), self |-> NoVerifier]
             ELSE IF parsed.panic
             THEN [result |-> Panic("attempt to shift left with overflow"),
                   self |-> NoVerifier]
             ELSE [result |-> Ok,
                   self |-> [exists |-> TRUE, vk |-> parsed.vk, vk_hash |-> blob.hash]]

----------------------------------------------------------------------------
(* The scalar field Fr, scaled down to a prime above the eight evaluation  *)
(* points so that 0..7 stay distinct and the barycentric constants stay    *)
(* invertible.                                                             *)

FrModulus == 101

Fr == 0..(FrModulus - 1)

FrAdd(a, b) == (a + b) % FrModulus
FrSub(a, b) == (a - b + FrModulus) % FrModulus
FrMul(a, b) == (a * b) % FrModulus
FrNeg(a) == (FrModulus - a) % FrModulus

\* Fr::inverse: None (here -1) for zero.
FrInverse(a) ==
    IF a % FrModulus = 0 THEN -1
    ELSE CHOOSE y \in Fr : (a * y) % FrModulus = 1

\* Fr::from_u64.
FrFromU64(x) ==
    LET r == LimbBase % FrModulus
    IN  (x[1] + ((x[2] % FrModulus) * r)
              + ((x[3] % FrModulus) * ((r * r) % FrModulus))
              + ((x[4] % FrModulus) * ((r * r * r) % FrModulus))) % FrModulus

\* An integer (possibly negative) as a field element.
FrFromInt(n) == ((n % FrModulus) + FrModulus) % FrModulus

----------------------------------------------------------------------------
(* Proof blobs and their parsing.  A blob is its length in bytes and its   *)
(* 32-byte words; a word is named by the field element it decodes to.      *)

\* A faulty proof_bytes_for_log_n, which counts one field too few.
proof_bytes_for_log_n_short(b, log_n) ==
    LET n == AsUsize(b, log_n)
        m == UsizeResult(b, WideMul(n, 11))
        a == UsizeResult(b, WideAdd(m.val, U64(74)))
        t == UsizeResult(b, WideMul(a.val, 32))
    IN  [panic |-> m.panic \/ a.panic \/ t.panic, val |-> t.val]

\* proof_bytes_for_log_n: (75 + 11 * log_n as usize) * 32 in usize.
proof_bytes_for_log_n(b, log_n) ==
    LET n == AsUsize(b, log_n)
        m == UsizeResult(b, WideMul(n, 11))
        a == UsizeResult(b, WideAdd(m.val, U64(75)))
        t == UsizeResult(b, WideMul(a.val, 32))
    IN  [panic |-> m.panic \/ a.panic \/ t.panic, val |-> t.val]

\* The rounds a blob of this many words is laid out for: 75 + 11 * rounds.
LayoutRounds(words) == (words - 75) \div 11

\* The round univariates the modelled provers send: zero, 1 - 2x (whose
\* values at 0 and 1 add up to zero) and the constant one (whose do not).
LineUnivariate(c0, c1) ==
    [i \in 0..(BATCHED_RELATION_PARTIAL_LENGTH - 1) |-> FrAdd(c0, FrMul(c1, i))]
Univariates ==
    <<LineUnivariate(0, 0), LineUnivariate(1, FrFromInt(-2)), LineUnivariate(1, 0)>>

\* A proof blob is its length in bytes and the content of its 32-byte words,
\* each named by the field element it decodes to.  Its content is that of a
\* proof laid out for LayoutRounds rounds: round r carries Univariates[us[r]],
\* the first sumcheck evaluation is e and the second is one, the first Gemini
\* evaluation and shplonk_q.x are g, and every other word is zero.
BlobWords(pb) == pb.len \div 32
\* The word at word index k (from 0); read_bytes panics past the end.
InBlob(pb, k) == k + 1 <= BlobWords(pb)
Word(pb, k) ==
    LET n == LayoutRounds(BlobWords(pb))
        c_univ == 32
        c_evals == c_univ + 8 * n
        c_a == c_evals + NUMBER_OF_ENTITIES + 2 * (n - 1)
        c_q == c_a + n
    IN  IF k >= c_univ /\ k < c_evals
        THEN Univariates[pb.us[((k - c_univ) \div 8) + 1]][(k - c_univ) % 8]
        ELSE IF k = c_evals THEN pb.e
        ELSE IF k = c_evals + 1 THEN 1
        ELSE IF k = c_a \/ k = c_q THEN pb.g
        ELSE 0
G1At(pb, k) == <<Word(pb, k), Word(pb, k + 1)>>
G1Infinity == <<0, 0>>

\* load_proof: the parsed Proof and the cursor (boundary, in words) after the
\* last read, or a panic.
load_proof(b, proof_bytes, log_n) ==
    IF ~U64Le(log_n, U64(CONST_PROOF_SIZE_LOG_N))
    THEN [panic |-> TRUE, reason |-> "log_n too large"]
    ELSE IF U64(proof_bytes.len) # proof_bytes_for_log_n(b, log_n).val
    THEN [panic |-> TRUE, reason |-> "proof bytes len"]
    ELSE
    LET n == SmallValue(log_n)
        \* 0..(log_n - 1): the subtraction is a usize subtraction.
        fold == UsizeResult(b, WideSub(log_n, U64(1)))
        folds == SmallValue(fold.val)
        c_points == PAIRING_POINTS_SIZE
        c_univ == c_points + 8 * 2
        c_evals == c_univ + n * BATCHED_RELATION_PARTIAL_LENGTH
        c_fold == c_evals + NUMBER_OF_ENTITIES
        c_a == c_fold + 2 * folds
        c_q == c_a + n
        c_end == c_q + 2 * 2
    IN  IF fold.panic
        THEN [panic |-> TRUE, reason |-> "attempt to subtract with overflow"]
        ELSE IF \/ folds < 0
                \/ folds > CONST_PROOF_SIZE_LOG_N - 1
                \/ ~InBlob(proof_bytes, c_fold + 2 * folds - 1)
        \* the loop runs until a read leaves the blob or the array
        THEN [panic |-> TRUE, reason |-> "gemini_fold_comms read out of bounds"]
        ELSE
        [panic |-> FALSE,
         boundary |-> c_end,
         proof |->
           [pairing_point_object |->
                [k \in 1..PAIRING_POINTS_SIZE |-> Word(proof_bytes, k - 1)],
            w1 |-> G1At(proof_bytes, c_points),
            w2 |-> G1At(proof_bytes, c_points + 2),
            w3 |-> G1At(proof_bytes, c_points + 4),
            lookup_read_counts |-> G1At(proof_bytes, c_points + 6),
            lookup_read_tags |-> G1At(proof_bytes, c_points + 8),
            w4 |-> G1At(proof_bytes, c_points + 10),
            lookup_inverses |-> G1At(proof_bytes, c_points + 12),
            z_perm |-> G1At(proof_bytes, c_points + 14),
            sumcheck_univariates |->
                [r \in 0..(CONST_PROOF_SIZE_LOG_N - 1) |->
                    [i \in 0..(BATCHED_RELATION_PARTIAL_LENGTH - 1) |->
                        IF r < n
                        THEN Word(proof_bytes,
                                  c_univ + r * BATCHED_RELATION_PARTIAL_LENGTH + i)
                        ELSE 0]],
            sumcheck_evaluations |->
                [k \in 1..NUMBER_OF_ENTITIES |-> Word(proof_bytes, c_evals + k - 1)],
            gemini_fold_comms |->
                [i \in 0..(CONST_PROOF_SIZE_LOG_N - 2) |->
                    IF i < folds THEN G1At(proof_bytes, c_fold + 2 * i)
                    ELSE G1Infinity],
            gemini_a_evaluations |->
                [i \in 0..(CONST_PROOF_SIZE_LOG_N - 1) |->
                    IF i < n THEN Word(proof_bytes, c_a + i) ELSE 0],
            shplonk_q |-> G1At(proof_bytes, c_q),
            kzg_quotient |-> G1At(proof_bytes, c_q + 2)]]

----------------------------------------------------------------------------
(* Fiat-Shamir transcript.  keccak256 is replaced by a small iterated hash *)
(* (one per salt); the absorption order is the design document's.          *)

HashModulus == 1009
HashMultiplier == 31

Absorb(h, x) == (h * HashMultiplier + x + 7) % HashModulus

\* The digest of the words xs[lo..hi].
RECURSIVE Digest(_, _, _)
Digest(xs, lo, hi) ==
    IF lo > hi THEN 0
    ELSE IF lo = hi THEN xs[lo]
    ELSE LET mid == (lo + hi) \div 2
         IN  Absorb(Digest(xs, lo, mid), Digest(xs, mid + 1, hi))

AbsorbSeq(h, xs) == Absorb(Absorb(h, Len(xs)), Digest(xs, 1, Len(xs)))

\* The i-th challenge squeezed from hash state h.
Squeeze(h, i) == Absorb(Absorb(h, i), 5) % FrModulus

\* The hash state after the univariates of rounds 0..r are absorbed.  The
\* rounds past log2(circuit_size) carry all-zero univariates: their
\* challenges depend on the last real state and the round number alone.
RECURSIVE SumcheckHash(_, _, _)
SumcheckHash(h, proof, r) ==
    IF r < 0 THEN h
    ELSE Absorb(SumcheckHash(h, proof, r - 1),
                Digest(proof.sumcheck_univariates[r], 0,
                       BATCHED_RELATION_PARTIAL_LENGTH - 1))

\* log2 of a circuit size (a power of two).
U64Log2(x) == CHOOSE e \in 0..63 : U64Pow2(e) = x

generate_transcript(s, proof, public_inputs, vk_hash, circuit_size, pis_total, pub_inputs_offset) ==
    LET h_eta == AbsorbSeq(s, <<vk_hash>> \o circuit_size \o pis_total
                              \o pub_inputs_offset \o public_inputs.words
                              \o proof.pairing_point_object
                              \o proof.w1 \o proof.w2 \o proof.w3)
        h_beta == AbsorbSeq(h_eta, proof.lookup_read_counts \o proof.lookup_read_tags
                                   \o proof.w4)
        h_alpha == AbsorbSeq(h_beta, proof.lookup_inverses \o proof.z_perm)
        h_gate == Absorb(h_alpha, 1)
        rounds == U64Log2(circuit_size)
        h_rounds == SumcheckHash(h_gate, proof, rounds - 1)
        h_rho == AbsorbSeq(h_rounds, proof.sumcheck_evaluations)
        h_nu == Absorb(h_rho, 2)
        h_z == AbsorbSeq(h_nu, proof.shplonk_q)
    IN  [rel_params |-> [eta |-> Squeeze(h_eta, 0),
                         eta_two |-> Squeeze(h_eta, 1),
                         eta_three |-> Squeeze(h_eta, 2),
                         beta |-> Squeeze(h_beta, 0),
                         gamma |-> Squeeze(h_beta, 1),
                         public_inputs_delta |-> 0],
         alphas |-> <<Squeeze(h_alpha, 0), Squeeze(h_alpha, 1)>>,
         gate_challenges |->
             [r \in 0..(CONST_PROOF_SIZE_LOG_N - 1) |-> Squeeze(h_gate, r)],
         sumcheck_u_challenges |->
             [r \in 0..(CONST_PROOF_SIZE_LOG_N - 1) |->
                 IF r < rounds THEN Squeeze(SumcheckHash(h_gate, proof, r), 0)
                 ELSE Squeeze(Absorb(h_rounds, r), 0)],
         rho |-> Squeeze(h_rho, 0),
         shplonk_nu |-> Squeeze(h_nu, 0),
         shplonk_z |-> Squeeze(h_z, 0)]

----------------------------------------------------------------------------
(* Public-inputs delta.                                                    *)

\* f[lo] * ... * f[hi]
RECURSIVE FrProductRange(_, _, _)
FrProductRange(f, lo, hi) ==
    IF lo > hi THEN 1
    ELSE IF lo = hi THEN f[lo]
    ELSE LET mid == (lo + hi) \div 2
         IN  FrMul(FrProductRange(f, lo, mid), FrProductRange(f, mid + 1, hi))

\* The two loops: every item multiplies both products and moves both
\* accumulators by beta, so the k-th item meets the accumulators moved
\* k - 1 times.
DeltaFold(items, numerator_acc, denominator_acc, beta) ==
    LET numerator_factor ==
            [k \in 1..Len(items) |->
                FrAdd(FrAdd(numerator_acc, FrMul(FrFromInt(k - 1), beta)), items[k])]
        denominator_factor ==
            [k \in 1..Len(items) |->
                FrAdd(FrSub(denominator_acc, FrMul(FrFromInt(k - 1), beta)), items[k])]
    IN  [numerator |-> FrProductRange(numerator_factor, 1, Len(items)),
         denominator |-> FrProductRange(denominator_factor, 1, Len(items))]

\* compute_public_input_delta: a value, an error string, or a panic of the
\* u64 additions PERMUTATION_ARGUMENT_VALUE_SEPARATOR + offset and offset + 1.
compute_public_input_delta(b, public_inputs, pairing_point_object, beta, gamma, offset, n) ==
    LET sep_offset == U64Result(b, WideAdd(U64Pow2(28), offset))
        offset_1 == U64Result(b, WideAdd(offset, U64(1)))
        numerator_acc == FrAdd(gamma, FrMul(beta, FrFromU64(sep_offset.val)))
        denominator_acc == FrSub(gamma, FrMul(beta, FrFromU64(offset_1.val)))
        prod == DeltaFold(public_inputs.words \o pairing_point_object,
                          numerator_acc, denominator_acc, beta)
        denominator_inv == FrInverse(prod.denominator)
    IN  IF sep_offset.panic \/ offset_1.panic
        THEN [panic |-> TRUE, err |-> "attempt to add with overflow", val |-> 0]
        ELSE IF denominator_inv = -1
        THEN [panic |-> FALSE, err |-> "public input delta denom is zero", val |-> 0]
        ELSE [panic |-> FALSE, err |-> "",
              val |-> FrMul(prod.numerator, denominator_inv)]

----------------------------------------------------------------------------
(* Sum-check.                                                              *)

\* The modulus of the BN254 scalar field, big-endian.
FrModulusBytes ==
    <<48, 100, 78, 114, 225, 49, 160, 41, 184, 80, 69, 182, 129, 129, 88, 93,
      40, 51, 232, 72, 121, 185, 112, 145, 67, 225, 245, 147, 240, 0, 0, 1>>

\* BARY_BYTES: the eight 32-byte constants d_0..d_7.
BARY_BYTES ==
    <<<<48, 100, 78, 114, 225, 49, 160, 41, 184, 80, 69, 182, 129, 129, 88, 93,
        40, 51, 232, 72, 121, 185, 112, 145, 67, 225, 245, 147, 239, 255, 236, 81>>,
      <<0, 0, 0, 0, 0, 0, 0, 0, 0, 0, 0, 0, 0, 0, 0, 0,
        0, 0, 0, 0, 0, 0, 0, 0, 0, 0, 0, 0, 0, 0, 2, 208>>,
      <<48, 100, 78, 114, 225, 49, 160, 41, 184, 80, 69, 182, 129, 129, 88, 93,
        40, 51, 232, 72, 121, 185, 112, 145, 67, 225, 245, 147, 239, 255, 255, 17>>,
      <<0, 0, 0, 0, 0, 0, 0, 0, 0, 0, 0, 0, 0, 0, 0, 0,
        0, 0, 0, 0, 0, 0, 0, 0, 0, 0, 0, 0, 0, 0, 0, 144>>,
      <<48, 100, 78, 114, 225, 49, 160, 41, 184, 80, 69, 182, 129, 129, 88, 93,
        40, 51, 232, 72, 121, 185, 112, 145, 67, 225, 245, 147, 239, 255, 255, 113>>,
      <<0, 0, 0, 0, 0, 0, 0, 0, 0, 0, 0, 0, 0, 0, 0, 0,
        0, 0, 0, 0, 0, 0, 0, 0, 0, 0, 0, 0, 0, 0, 0, 240>>,
      <<48, 100, 78, 114, 225, 49, 160, 41, 184, 80, 69, 182, 129, 129, 88, 93,
        40, 51, 232, 72, 121, 185, 112, 145, 67, 225, 245, 147, 239, 255, 253, 49>>,
      <<0, 0, 0, 0, 0, 0, 0, 0, 0, 0, 0, 0, 0, 0, 0, 0,
        0, 0, 0, 0, 0, 0, 0, 0, 0, 0, 0, 0, 0, 0, 19, 176>>>>

\* a - b for two 32-byte big-endian numbers that agree in bytes 0..27.
LowDifference(a, b) ==
    (a[29] - b[29]) * 16777216 + (a[30] - b[30]) * 65536 + (a[31] - b[31]) * 256
        + (a[32] - b[32])

\* The integer, negative when counted down from the modulus, that the
\* field element of 32 bytes is: for bytes that agree in bytes 0..27 with
\* the modulus or with zero.
FrBytesAsInt(bytes) ==
    IF SubSeq(bytes, 1, 28) = SubSeq(FrModulusBytes, 1, 28)
    THEN LowDifference(bytes, FrModulusBytes)
    ELSE LowDifference(bytes, [k \in 1..32 |-> 0])

\* Fr::from_bytes(&BARY_BYTES[i])
BARY(i) == FrFromInt(FrBytesAsInt(BARY_BYTES[i + 1]))

Points == 0..(BATCHED_RELATION_PARTIAL_LENGTH - 1)

\* A faulty check_sum, which looks at the value at zero alone.
check_sum_at_zero(round_univariate, round_target) ==
    round_univariate[0] = round_target

check_sum(round_univariate, round_target) ==
    FrAdd(round_univariate[0], round_univariate[1]) = round_target

RECURSIVE FrProduct(_, _)
\* f[0] * ... * f[i]
FrProduct(f, i) == IF i < 0 THEN 1 ELSE FrMul(FrProduct(f, i - 1), f[i])

RECURSIVE FrSum(_, _)
\* f[0] + ... + f[i]
FrSum(f, i) == IF i < 0 THEN 0 ELSE FrAdd(FrSum(f, i - 1), f[i])

\* The backward pass of the batch inversion: inv_acc when the loop reaches
\* index i, having run over the indices above it.
RECURSIVE InvAcc(_, _, _)
InvAcc(inv_last, denoms, i) ==
    IF i = BATCHED_RELATION_PARTIAL_LENGTH - 1 THEN inv_last
    ELSE FrMul(InvAcc(inv_last, denoms, i + 1), denoms[i + 1])

\* A faulty batch inversion, whose backward pass multiplies by the
\* denominator of the index it is at.
batch_inverses_shifted(denoms) ==
    LET prefix == [i \in Points |-> FrProduct(denoms, i)]
        inv_last == FrInverse(prefix[BATCHED_RELATION_PARTIAL_LENGTH - 1])
    IN  [i \in Points |->
            IF i = 0 THEN FrMul(InvAcc(inv_last, denoms, 0), denoms[0])
            ELSE FrMul(FrMul(InvAcc(inv_last, denoms, i), denoms[i]), prefix[i - 1])]

\* The individual inverses the batch inversion recovers.
batch_inverses(denoms) ==
    LET prefix == [i \in Points |-> FrProduct(denoms, i)]
        inv_last == FrInverse(prefix[BATCHED_RELATION_PARTIAL_LENGTH - 1])
    IN  [i \in Points |->
            IF i = 0 THEN InvAcc(inv_last, denoms, 0)
            ELSE FrMul(InvAcc(inv_last, denoms, i), prefix[i - 1])]

\* A faulty compute_next_target_sum, which leaves out B(chi).
compute_next_target_sum_unscaled(round_univariate, round_challenge) ==
    LET chi_minus == [i \in Points |-> FrSub(round_challenge, FrFromInt(i))]
        denoms == [i \in Points |-> FrMul(BARY(i), chi_minus[i])]
        all == FrProduct(denoms, BATCHED_RELATION_PARTIAL_LENGTH - 1)
        inv == batch_inverses(denoms)
        terms == [i \in Points |-> FrMul(round_univariate[i], inv[i])]
    IN  IF FrInverse(all) = -1
        THEN [err |-> "denom zero", val |-> 0]
        ELSE [err |-> "", val |-> FrSum(terms, BATCHED_RELATION_PARTIAL_LENGTH - 1)]

\* compute_next_target_sum: [err, val].
compute_next_target_sum(round_univariate, round_challenge) ==
    LET chi_minus == [i \in Points |-> FrSub(round_challenge, FrFromInt(i))]
        b_poly == FrProduct(chi_minus, BATCHED_RELATION_PARTIAL_LENGTH - 1)
        denoms == [i \in Points |-> FrMul(BARY(i), chi_minus[i])]
        all == FrProduct(denoms, BATCHED_RELATION_PARTIAL_LENGTH - 1)
        inv == batch_inverses(denoms)
        terms == [i \in Points |-> FrMul(round_univariate[i], inv[i])]
    IN  IF FrInverse(all) = -1
        THEN [err |-> "denom zero", val |-> 0]
        ELSE [err |-> "",
              val |-> FrMul(b_poly, FrSum(terms, BATCHED_RELATION_PARTIAL_LENGTH - 1))]

partially_evaluate_pow(gate_challenge, pow_partial_evaluation, round_challenge) ==
    FrMul(pow_partial_evaluation,
          FrAdd(1, FrMul(round_challenge, FrSub(gate_challenge, 1))))

\* The grand relation sum: pow_partial times the alpha-batched subrelations.
\* Two subrelations stand for the 28: an arithmetic gate and a permutation
\* step that reads public_inputs_delta.
accumulate_relation_evaluations(evals, rel_params, alphas, pow_partial) ==
    LET arith == FrSub(FrMul(evals[1], evals[2]), evals[3])
        perm == FrSub(FrMul(evals[4], rel_params.public_inputs_delta),
                      FrMul(evals[5], FrAdd(rel_params.beta, rel_params.gamma)))
    IN  FrMul(pow_partial, FrAdd(arith, FrMul(alphas[1], perm)))

\* The rounds of verify_sumcheck from `round` on: the result, the rounds whose
\* univariate was examined, and the target and pow_partial left.
RECURSIVE sumcheck_rounds(_, _, _, _, _, _)
sumcheck_rounds(proof, tp, log_n, round, round_target, pow_partial_evaluation) ==
    IF round >= log_n
    THEN [err |-> "", examined |-> <<>>, round_target |-> round_target,
          pow_partial_evaluation |-> pow_partial_evaluation]
    ELSE
    LET round_univariate == proof.sumcheck_univariates[round]
        round_challenge == tp.sumcheck_u_challenges[round]
        next == compute_next_target_sum(round_univariate, round_challenge)
        rest == sumcheck_rounds(proof, tp, log_n, round + 1, next.val,
                    partially_evaluate_pow(tp.gate_challenges[round],
                                           pow_partial_evaluation, round_challenge))
    IN  IF ~check_sum(round_univariate, round_target)
        THEN [err |-> "round failed", examined |-> <<round>>,
              round_target |-> round_target,
              pow_partial_evaluation |-> pow_partial_evaluation]
        ELSE IF next.err # ""
        THEN [err |-> next.err, examined |-> <<round>>,
              round_target |-> round_target,
              pow_partial_evaluation |-> pow_partial_evaluation]
        ELSE [rest EXCEPT !.examined = <<round>> \o @]

\* verify_sumcheck: "" for Ok(()), else the error string.
verify_sumcheck(b, proof, tp, vk) ==
    LET log_n == SmallValue(AsUsize(b, vk.log_circuit_size))
        rounds == sumcheck_rounds(proof, tp, log_n, 0, 0, 1)
        grand_honk_relation_sum ==
            accumulate_relation_evaluations(proof.sumcheck_evaluations, tp.rel_params,
                                            tp.alphas, rounds.pow_partial_evaluation)
    IN  [ran |-> TRUE,
         examined |-> rounds.examined,
         err |-> IF rounds.err # "" THEN rounds.err
                 ELSE IF grand_honk_relation_sum = rounds.round_target THEN ""
                 ELSE "sumcheck final mismatch"]

NoSumcheck == [ran |-> FALSE, examined |-> <<>>, err |-> ""]

----------------------------------------------------------------------------
(* Shplemini: the Gemini fold, the Shplonk batching and the KZG pairing    *)
(* check, reduced to one linear identity over the same inputs.             *)

verify_shplemini(proof, vk, tp) ==
    LET lhs == FrAdd(FrAdd(proof.shplonk_q[1], FrMul(tp.shplonk_z, proof.kzg_quotient[1])),
                     FrAdd(FrMul(tp.shplonk_nu, proof.gemini_a_evaluations[0]),
                           FrMul(tp.rho, vk.points)))
    IN  IF lhs = 0 THEN "" ELSE "shplonk pairing check failed"

----------------------------------------------------------------------------
(* UltraHonkVerifier::verify.  It is one straight-line function; it is     *)
(* written here stage by stage, each stage handing over to the next, and   *)
(* returns its result with the stages it evaluated, in order.              *)

Done(result, stages, sc) == [result |-> result, stages |-> stages, sc |-> sc]

NoOut == Done(NoResult, <<>>, NoSumcheck)

\* 6) Shplonk
verify_shplonk(self, proof, t, stages, sc) ==
    LET e == verify_shplemini(proof, self.vk, t)
    IN  IF e # ""
        THEN Done(ShplonkFailed(e), stages \o <<"shplemini">>, sc)
        ELSE Done(Ok, stages \o <<"shplemini">>, sc)

\* A faulty step 5, which hands over to Shplonk whatever sum-check returned.
verify_sumcheck_stage_unconditional(b, self, proof, t, stages) ==
    verify_shplonk(self, proof, t, stages \o <<"sumcheck">>,
                   verify_sumcheck(b, proof, t, self.vk))

\* 5) Sum-check
verify_sumcheck_stage(b, self, proof, t, stages) ==
    LET sc == verify_sumcheck(b, proof, t, self.vk)
    IN  IF sc.err # ""
        THEN Done(SumcheckFailed(sc.err), stages \o <<"sumcheck">>, sc)
        ELSE verify_shplonk(self, proof, t, stages \o <<"sumcheck">>, sc)

\* 4) Public delta
verify_delta(b, self, proof, public_inputs_bytes, t, stages) ==
    LET d == compute_public_input_delta(b, public_inputs_bytes,
                 proof.pairing_point_object, t.rel_params.beta, t.rel_params.gamma,
                 self.vk.pub_inputs_offset, self.vk.circuit_size)
    IN  IF d.panic
        THEN Done(Panic(d.err), stages \o <<"delta">>, NoSumcheck)
        ELSE IF d.err # ""
        THEN Done(InvalidInput(d.err), stages \o <<"delta">>, NoSumcheck)
        ELSE verify_sumcheck_stage(b, self, proof,
                 [t EXCEPT !.rel_params.public_inputs_delta = d.val],
                 stages \o <<"delta">>)

\* 3) Fiat-Shamir transcript
verify_transcript(b, s, self, proof, public_inputs_bytes, provided, stages) ==
    LET pis_total == WideAdd(provided, U64(PAIRING_POINTS_SIZE)).val
        t == generate_transcript(s, proof, public_inputs_bytes, self.vk_hash,
                                 self.vk.circuit_size, pis_total,
                                 self.vk.pub_inputs_offset)
    IN  verify_delta(b, self, proof, public_inputs_bytes, t,
                     stages \o <<"transcript">>)

\* The allowed interpretations of the VK's public-input count.
public_inputs_valid(vk_inputs, provided) ==
    LET expected_recursive == WideSub(vk_inputs, U64(PAIRING_POINTS_SIZE))
    IN  IF vk_inputs = provided THEN TRUE
        ELSE IF expected_recursive.carry = 0 THEN expected_recursive.val = provided
        ELSE FALSE

\* 2) sanity on public inputs
verify_public_inputs(b, s, self, proof, public_inputs_bytes, stages) ==
    IF public_inputs_bytes.len % 32 # 0
    THEN Done(InvalidInput("public inputs must be 32-byte aligned"),
              stages \o <<"pi_aligned">>, NoSumcheck)
    ELSE LET provided == U64(public_inputs_bytes.len \div 32)
         IN  IF ~public_inputs_valid(self.vk.public_inputs_size, provided)
             THEN Done(InvalidInput("public inputs mismatch (vk vs provided)"),
                       stages \o <<"pi_aligned", "pi_count">>, NoSumcheck)
             ELSE verify_transcript(b, s, self, proof, public_inputs_bytes, provided,
                                    stages \o <<"pi_aligned", "pi_count">>)

proof_size_mismatch(proof_len, expected_proof_bytes) ==
    U64(proof_len) # expected_proof_bytes

\* 1) parse proof (size depends on log_n)
verify(b, s, self, proof_bytes, public_inputs_bytes) ==
    LET log_n == AsUsize(b, self.vk.log_circuit_size)
        expected_proof_bytes == proof_bytes_for_log_n(b, self.vk.log_circuit_size)
        loaded == load_proof(b, proof_bytes, log_n)
    IN  IF expected_proof_bytes.panic
        THEN Done(Panic("attempt to multiply with overflow"), <<"proof_size">>,
                  NoSumcheck)
        ELSE IF proof_size_mismatch(proof_bytes.len, expected_proof_bytes.val)
        THEN Done(InvalidInput("proof size mismatch"), <<"proof_size">>, NoSumcheck)
        ELSE IF loaded.panic
        THEN Done(Panic(loaded.reason), <<"proof_size", "load_proof">>, NoSumcheck)
        ELSE verify_public_inputs(b, s, self, loaded.proof, public_inputs_bytes,
                                  <<"proof_size", "load_proof">>)

----------------------------------------------------------------------------
(* The inputs a caller can supply.                                         *)

\* 2^32 + 1, 2^64 - 2^28.
U64Pow2_32Plus1 == <<1, 0, 1, 0>>
U64MaxMinusSeparator == <<0, LimbBase - 2 ^ 12, LimbBase - 1, LimbBase - 1>>

VkBlob(len, hash, pad, log_circuit_size, public_inputs_size, pub_inputs_offset, points, tail) ==
    [len |-> len, hash |-> hash, pad |-> pad,
     log_circuit_size |-> log_circuit_size,
     public_inputs_size |-> public_inputs_size,
     pub_inputs_offset |-> pub_inputs_offset,
     points |-> points, tail |-> tail]

PrefixedLen == HASH_PREFIX_LEN + MIN_LEN
PrefixedPaddedLen == HASH_PREFIX_LEN + PADDED_LEN

\* The reference blob: hash prefix, log_n = 1, one public input, offset 1.
BaseVk == VkBlob(PrefixedLen, 0, 0, U64(1), U64(1), U64(1), 0, 0)

VkBlobs ==
    \* lengths new refuses, among them the hash-less 1888-byte VK
    {[BaseVk EXCEPT !.len = l] : l \in {HASH_PREFIX_LEN - 1, MIN_LEN, PrefixedLen + 1}}
    \* bytes of the blob changed one region at a time
    \cup {[BaseVk EXCEPT !.pad = 1], [BaseVk EXCEPT !.points = 1],
          [BaseVk EXCEPT !.hash = 1],
          [BaseVk EXCEPT !.len = PrefixedPaddedLen],
          [BaseVk EXCEPT !.len = PrefixedPaddedLen, !.tail = 1]}
    \* header values
    \cup {[BaseVk EXCEPT !.log_circuit_size = l] :
            l \in {U64(n) : n \in 0..MaxLogN}
                  \cup {U64(CONST_PROOF_SIZE_LOG_N + 1), U64(64), U64Pow2_32Plus1,
                        U64Pow2(63)}}
    \cup {[BaseVk EXCEPT !.public_inputs_size = U64(n)] :
            n \in {0, PAIRING_POINTS_SIZE + 1}}
    \cup {[BaseVk EXCEPT !.pub_inputs_offset = o] :
            o \in {U64Zero, U64Max, U64MaxMinusSeparator}}

ProofBlob(log_n, us, e, g) ==
    [len |-> 32 * (75 + 11 * log_n), us |-> us, e |-> e, g |-> g]

\* Proofs of 1..MaxLogN rounds: every choice of round univariates with the
\* other words zero, and every choice of e and g over zero univariates.
ProofBlobs ==
    {ProofBlob(0, <<>>, 0, 0)}
    \cup UNION {{ProofBlob(n, us, 0, 0) : us \in [1..n -> 1..Len(Univariates)]}
                \cup {ProofBlob(n, [r \in 1..n |-> 1], e, g) : e \in {0, 1}, g \in {0, 1}} :
                n \in 1..MaxLogN}
    \* one byte short of a one-round proof
    \cup {[ProofBlob(1, <<1>>, 0, 0) EXCEPT !.len = @ - 1]}
    \* the length that matches a log_n above CONST_PROOF_SIZE_LOG_N
    \cup {ProofBlob(CONST_PROOF_SIZE_LOG_N + 1, <<>>, 0, 0)}

PublicInputsBlobs ==
    {[len |-> 32 * n, words |-> [w \in 1..n |-> v]] : n \in 0..MaxProvided, v \in {0, 1}}
    \cup {[len |-> 33, words |-> <<0>>]}

NoBlob == [len |-> -1]
NoCall == [made |-> FALSE]

----------------------------------------------------------------------------
(* Public-input encoding of the game contract (contracts/proof-of-life).  *)
(* A u32 is its two 16-bit halves, a BytesN<32> a function on 0..31.       *)

U32(hi, lo) == [hi |-> hi, lo |-> lo]
U32Zero == U32(0, 0)
U32Max == U32(65535, 65535)
NoU32 == [hi |-> -1, lo |-> -1]

\* (v >> shift) & 0xFF, for the shifts bytes32_from_u32 uses.
U32Byte(v, shift) ==
    IF shift = 0 THEN v.lo % 256
    ELSE IF shift = 8 THEN v.lo \div 256
    ELSE IF shift = 16 THEN v.hi % 256
    ELSE v.hi \div 256

\* A faulty encoding, which leaves the most significant byte out.
bytes32_from_u32_low24(v) ==
    [i \in 0..31 |->
        IF i = 31 THEN U32Byte(v, 0)
        ELSE IF i = 30 THEN U32Byte(v, 8)
        ELSE IF i = 29 THEN U32Byte(v, 16)
        ELSE 0]

bytes32_from_u32(v) ==
    [i \in 0..31 |->
        IF i = 31 THEN U32Byte(v, 0)
        ELSE IF i = 30 THEN U32Byte(v, 8)
        ELSE IF i = 29 THEN U32Byte(v, 16)
        ELSE IF i = 28 THEN U32Byte(v, 24)
        ELSE 0]

\* u32::from_be_bytes([b0, b1, b2, b3])
u32_from_be_bytes(b0, b1, b2, b3) == U32(b0 * 256 + b1, b2 * 256 + b3)

\* verify_u32_field: the field at idx of pis (a Vec, indexed from 0) must be
\* the encoding of expected.
verify_u32_field(pis, idx, expected, err) ==
    IF idx >= Len(pis) THEN Err("Error", err)
    ELSE IF pis[idx + 1] # bytes32_from_u32(expected) THEN Err("Error", err)
    ELSE Ok

\* arr[i] ^= 1 << bit
FlipBit(arr, i, bit) ==
    LET mask == 2 ^ bit
    IN  [arr EXCEPT ![i] = IF (@ \div mask) % 2 = 1 THEN @ - mask ELSE @ + mask]

\* The values of u32_field_encoding_roundtrip.
U32Values ==
    {U32Zero, U32(0, 1), U32(0, 42), U32(0, 100), U32(0, 255), U32(0, 256),
     U32(0, 65535), U32(1, 0), U32(15, 16960), U32(8394, 36769), U32Max}

\* The values binding checks expect, besides the one encoded.
ExpectedValues == {U32Zero, U32(0, 1), U32Max}

NoBytes == <<>>

EncIdle ==
    /\ enc_v = NoU32
    /\ enc_bytes = NoBytes
    /\ enc_expected = NoU32
    /\ enc_out = NoResult

\* The contract encodes a u32 for a binding check.
Encode(v) ==
    /\ enc_v = NoU32
    /\ enc_v' = v
    /\ enc_bytes' = bytes32_from_u32(v)
    /\ enc_expected' = NoU32
    /\ enc_out' = NoResult
    /\ UNCHANGED <<verifier_vars, zk_vars, game_vars, calc_vars>>

\* enc_bytes is the encoding of enc_v as the contract computed it.
Pristine == enc_v # NoU32 /\ enc_bytes = bytes32_from_u32(enc_v)

\* A caller supplies the field with one bit of the encoding flipped.
Flip(i, bit) ==
    /\ Pristine
    /\ enc_bytes' = FlipBit(enc_bytes, i, bit)
    /\ enc_expected' = NoU32
    /\ enc_out' = NoResult
    /\ UNCHANGED <<enc_v, verifier_vars, zk_vars, game_vars, calc_vars>>

\* A binding check compares the supplied field with the encoding of expected.
CheckField(expected) ==
    /\ enc_v # NoU32
    /\ enc_out = NoResult
    /\ enc_expected' = expected
    /\ enc_out' = verify_u32_field(<<enc_bytes>>, 0, expected, "UnexpectedTower")
    /\ UNCHANGED <<enc_v, enc_bytes, verifier_vars, zk_vars, game_vars, calc_vars>>

----------------------------------------------------------------------------
(* Groth16 verifier contract (contracts/zk-verifier).                      *)
(*                                                                         *)
(* The BN254 groups are scaled down to groups of prime order GroupOrder:   *)
(* the G1 point k*G1 and the G2 point k*G2 are the number k, the identity  *)
(* is 0, and e(a*G1, b*G2) is the GT element of exponent a*b.  A byte      *)
(* string that encodes no point of the curve is OffCurve.  The host        *)
(* functions validate the points they are given and trap on OffCurve.      *)

GroupOrder == 5
OffCurve == -1
G1Point(k) == k % GroupOrder
G2Point(k) == k % GroupOrder
G1Encodings == 0..(GroupOrder - 1) \cup {OffCurve}

\* Fr::from_bytes: the 32 bytes as a big-endian number, reduced by the host.
Fr_from_bytes(bytes) == bytes % GroupOrder

OkValue(v) == [kind |-> "Ok", value |-> v]
VerifierError(name) == Err("VerifierError", name)
HostTrap(reason) == Err("Trap", reason)

\* What a host function hands back: a value, or a trap that ends the call.
HostValue(v) == [trapped |-> FALSE, value |-> v]
HostTrapped == [trapped |-> TRUE]

\* Host functions of env.crypto().bn254(); they trap on a point off the curve.
g1_mul(p, scalar) ==
    IF p = OffCurve THEN HostTrapped ELSE HostValue((p * scalar) % GroupOrder)
g1_add(p, q) ==
    IF p = OffCurve \/ q = OffCurve THEN HostTrapped ELSE HostValue((p + q) % GroupOrder)
\* A faulty negation, which leaves the point as it is.
g1_neg_identity(p) == p
\* -P: the y-coordinate flipped; the identity and a non-point stay what they are.
g1_neg(p) == IF p = OffCurve THEN OffCurve ELSE (GroupOrder - p) % GroupOrder

RECURSIVE PairingExponent(_, _, _)
PairingExponent(g1_vec, g2_vec, i) ==
    IF i = 0 THEN 0
    ELSE (PairingExponent(g1_vec, g2_vec, i - 1) + g1_vec[i] * g2_vec[i]) % GroupOrder
pairing_check(g1_vec, g2_vec) ==
    IF \E i \in DOMAIN g1_vec : g1_vec[i] = OffCurve \/ g2_vec[i] = OffCurve
    THEN HostTrapped
    ELSE HostValue(PairingExponent(g1_vec, g2_vec, Len(g1_vec)) = 0)

NoVk == [stored |-> FALSE]
Groth16Vk(alpha_g1, beta_g2, gamma_g2, delta_g2, ic) ==
    [stored |-> TRUE, alpha_g1 |-> alpha_g1, beta_g2 |-> beta_g2,
     gamma_g2 |-> gamma_g2, delta_g2 |-> delta_g2, ic |-> ic]
Groth16Proof(a, b, c) == [a |-> a, b |-> b, c |-> c]

CircuitIds == {0, 1}
Addresses == {"admin", "imposter"}

\* get_vk
get_vk(vks, circuit_id) ==
    IF vks[circuit_id] = NoVk THEN VerifierError("VkNotFound") ELSE OkValue(vks[circuit_id])

\* A faulty store_vk, which stores for whoever signed the call.
store_vk_any_signer(stored, vks, admin, signers, circuit_id, vk) ==
    IF admin \notin signers
    THEN [result |-> HostTrap("require_auth"), vks |-> vks]
    ELSE [result |-> Ok, vks |-> [vks EXCEPT ![circuit_id] = vk]]

\* store_vk(admin, circuit_id, vk), called with the authorizations of
\* signers, on the storage (stored admin, vks): the result and the VKs after.
store_vk(stored, vks, admin, signers, circuit_id, vk) ==
    IF admin \notin signers
    THEN [result |-> HostTrap("require_auth"), vks |-> vks]
    ELSE IF admin # stored
    THEN [result |-> VerifierError("NotAdmin"), vks |-> vks]
    ELSE [result |-> Ok, vks |-> [vks EXCEPT ![circuit_id] = vk]]

\* Step 1 of verify_groth16 from input i on: vk_x so far, the host
\* operations made, and whether one of them trapped.
RECURSIVE vk_x_from(_, _, _, _)
vk_x_from(vk, public_inputs, i, acc) ==
    IF acc.trapped \/ i >= Len(public_inputs) THEN acc
    ELSE LET scalar == Fr_from_bytes(public_inputs[i + 1])
             ic_point == vk.ic[i + 2]
             term == g1_mul(ic_point, scalar)
             sum == g1_add(acc.vk_x, term.value)
         IN  IF term.trapped
             THEN [acc EXCEPT !.trapped = TRUE, !.ops = @ \o <<"g1_mul">>]
             ELSE IF sum.trapped
             THEN [acc EXCEPT !.trapped = TRUE, !.ops = @ \o <<"g1_mul", "g1_add">>]
             ELSE vk_x_from(vk, public_inputs, i + 1,
                            [vk_x |-> sum.value, ops |-> acc.ops \o <<"g1_mul", "g1_add">>,
                             trapped |-> FALSE])

\* verify_groth16: the result and the host operations made.
verify_groth16(vks, circuit_id, proof, public_inputs) ==
    LET got == get_vk(vks, circuit_id)
        vk == got.value
        n_inputs == Len(public_inputs)
        step1 == vk_x_from(vk, public_inputs, 0,
                           [vk_x |-> vk.ic[1], ops |-> <<>>, trapped |-> FALSE])
        g1_vec == <<proof.a, g1_neg(vk.alpha_g1), g1_neg(step1.vk_x), g1_neg(proof.c)>>
        g2_vec == <<proof.b, vk.beta_g2, vk.gamma_g2, vk.delta_g2>>
        ok == pairing_check(g1_vec, g2_vec)
    IN  IF got.kind # "Ok" THEN [result |-> got, ops |-> <<>>]
        ELSE IF Len(vk.ic) # n_inputs + 1
        THEN [result |-> VerifierError("PublicInputCountMismatch"), ops |-> <<>>]
        ELSE IF step1.trapped
        THEN [result |-> HostTrap(step1.ops[Len(step1.ops)]), ops |-> step1.ops]
        ELSE IF ok.trapped
        THEN [result |-> HostTrap("pairing_check"), ops |-> step1.ops \o <<"pairing_check">>]
        ELSE [result |-> OkValue(ok.value), ops |-> step1.ops \o <<"pairing_check">>]

\* The VKs of the tests, a VK of a circuit with two inputs, and VKs with a
\* byte string that is no point.
DegenerateVk == Groth16Vk(1, 1, 1, 1, <<0>>)
OneInputVk == Groth16Vk(1, 1, 1, 1, <<0, 1>>)
Groth16Vks ==
    {DegenerateVk, OneInputVk, Groth16Vk(2, 3, 1, 2, <<1, 2, 3>>),
     Groth16Vk(1, 1, 1, 1, <<0, OffCurve>>)}
\* The proof of the tests, with A or C replaced, with B replaced, and with
\* byte strings that are no points.
Groth16Proofs ==
    {Groth16Proof(a, 1, c) : a \in {1, 2, OffCurve}, c \in {0, 1}}
    \cup {Groth16Proof(1, 2, 0), Groth16Proof(1, OffCurve, 0)}
\* Public inputs: none, 0, 1, the group order (not canonical), and pairs.
Groth16Inputs == {<<>>, <<0>>, <<1>>, <<GroupOrder>>, <<1, 1>>, <<2, 0>>}

NoZkCall == [op |-> "none"]
NoZkOut == [result |-> NoResult, ops |-> <<>>]

ZkIdle ==
    /\ zk_admin = "admin"
    /\ zk_vks = [c \in CircuitIds |-> NoVk]
    /\ zk_call = NoZkCall
    /\ zk_out = NoZkOut
    /\ zk_last = [c \in CircuitIds |-> NoVk]

\* store_vk, in a transaction signed by signer.
StoreVk(signer, admin, circuit_id, vk) ==
    LET r == store_vk(zk_admin, zk_vks, admin, {signer}, circuit_id, vk)
    IN  /\ zk_call' = [op |-> "store_vk", signer |-> signer, admin |-> admin,
                       circuit_id |-> circuit_id, vk |-> vk, before |-> zk_vks]
        /\ zk_out' = [result |-> r.result, ops |-> <<>>]
        /\ zk_vks' = r.vks
        /\ zk_last' = IF signer = zk_admin /\ admin = zk_admin
                      THEN [zk_last EXCEPT ![circuit_id] = vk]
                      ELSE zk_last
        /\ UNCHANGED <<zk_admin, verifier_vars, enc_vars, game_vars, calc_vars>>

GetVk(circuit_id) ==
    /\ zk_call' = [op |-> "get_vk", circuit_id |-> circuit_id]
    /\ zk_out' = [result |-> get_vk(zk_vks, circuit_id), ops |-> <<>>]
    /\ UNCHANGED <<zk_admin, zk_vks, zk_last, verifier_vars, enc_vars, game_vars, calc_vars>>

VerifyGroth16(circuit_id, proof, public_inputs) ==
    /\ zk_call' = [op |-> "verify_groth16", circuit_id |-> circuit_id,
                   proof |-> proof, public_inputs |-> public_inputs]
    /\ zk_out' = verify_groth16(zk_vks, circuit_id, proof, public_inputs)
    /\ UNCHANGED <<zk_admin, zk_vks, zk_last, verifier_vars, enc_vars, game_vars, calc_vars>>

----------------------------------------------------------------------------
(* Game contract (contracts/proof-of-life): one session.                   *)
(*                                                                         *)
(* The contract's storage is a record st: the session's core and runtime,  *)
(* the session-key scopes of the two roles, and whether the verifier       *)
(* addresses are set.  A method is an operator from the storage and the    *)
(* call's arguments to the result and the storage after; a call that       *)
(* returns an error or is aborted by the host leaves the storage as it     *)
(* was.  A caller is the address given as actor and the address that       *)
(* signed the transaction.  The proof verifier and the game hub are other  *)
(* contracts: the verifier's answer is an argument of the call, the hub's  *)
(* calls succeed.                                                          *)

PING_COST == 20
RECHARGE_AMOUNT == 10
BATTERY_MAX == 100
INITIAL_BATTERY == 100
SESSION_METHOD_DISPATCH == 1
SESSION_METHOD_RECHARGE == 2
SESSION_METHOD_COMMIT_LOCATION == 4
SESSION_METHOD_SUBMIT_PING_PROOF == 8
SESSION_METHOD_SUBMIT_MOVE_PROOF == 16
SESSION_METHOD_SUBMIT_TURN_STATUS_PROOF == 32
SESSION_METHOD_ASSASSIN_TICK == 64
SESSION_METHOD_LOCK_SECURE_MODE == 128

\* Towers: the default coordinates, by tower_id 0..3 (N, E, S, W).
Towers == <<[x |-> 5, y |-> 0], [x |-> 9, y |-> 5], [x |-> 5, y |-> 9], [x |-> 0, y |-> 5]>>

Error(name) == Err("Error", name)

\* A u32 that is a small number, as the u32 it is.
ToU32(n) == U32(n \div 65536, n % 65536)

\* A BytesN<32> of a caller: bytes 0..26 zero, byte 27 top, bytes 28..31
\* the big-endian u32 low.
Field(top, low) == [top |-> top, low |-> low]
FieldBytes(w) ==
    LET low == bytes32_from_u32(w.low)
    IN  [i \in 0..31 |-> IF i < 27 THEN 0 ELSE IF i = 27 THEN w.top ELSE low[i]]
U32Field(n) == Field(0, ToU32(n))

Some(v) == [some |-> TRUE, value |-> v]
None == [some |-> FALSE]

Roles == {"Dispatcher", "Assassin"}
NoScope == [stored |-> FALSE]
NoSession == [exists |-> FALSE]
NoRuntime == [exists |-> FALSE]

\* The session this model follows, the ledger sequence at its start, and
\* where start_game puts Chad.
SessionId == 1
LedgerSequence == 100
InitChadX == 4
InitChadY == 7

NoStorage ==
    [core |-> NoSession, rt |-> NoRuntime,
     scopes |-> [role \in Roles |-> NoScope], verifiers_set |-> FALSE,
     ledger |-> LedgerSequence]

\* What a method hands back: its result and the storage after.
Returned(result, st) == [result |-> result, st |-> st]

\* u32::saturating_add(1) and saturating_sub(1)
SaturatingInc(u) ==
    IF u = U32Max THEN U32Max
    ELSE IF u.lo = 65535 THEN U32(u.hi + 1, 0)
    ELSE U32(u.hi, u.lo + 1)
SaturatingDec(u) ==
    IF u = U32Zero THEN U32Zero
    ELSE IF u.lo = 0 THEN U32(u.hi - 1, 65535)
    ELSE U32(u.hi, u.lo - 1)
\* a <= b and a.min(b) on u32
U32Le(a, b) == a.hi < b.hi \/ (a.hi = b.hi /\ a.lo <= b.lo)
U32Min(a, b) == IF U32Le(a, b) THEN a ELSE b

\* (allow_mask & method_flag) != 0, for a flag that is a power of two
MaskAllows(allow_mask, method_flag) == (allow_mask \div method_flag) % 2 = 1

\* A faulty require_owner_or_delegate, which lets in whoever signed.
require_owner_or_delegate_open(st, owner, caller, role, method_flag) ==
    IF caller.signer # caller.actor THEN Returned(HostTrap("require_auth"), st)
    ELSE Returned(Ok, st)

\* A faulty require_owner_or_delegate, which never looks at expires_ledger.
require_owner_or_delegate_unexpiring(st, owner, caller, role, method_flag) ==
    LET actor == caller.actor
        scope == st.scopes[role]
    IN  IF caller.signer # actor THEN Returned(HostTrap("require_auth"), st)
        ELSE IF actor = owner THEN Returned(Ok, st)
        ELSE IF scope = NoScope \/ scope.delegate # actor
        THEN Returned(Error("SessionKeyNotAuthorized"), st)
        ELSE IF ~MaskAllows(scope.allow_mask, method_flag)
        THEN Returned(Error("SessionKeyMethodNotAllowed"), st)
        ELSE IF scope.max_writes # 0 /\ scope.writes_used >= scope.max_writes
        THEN Returned(Error("SessionKeyWriteLimitExceeded"), st)
        ELSE Returned(Ok, [st EXCEPT !.scopes[role].writes_used = @ + 1])

\* require_owner_or_delegate; st.ledger is env.ledger().sequence()
require_owner_or_delegate(st, owner, caller, role, method_flag) ==
    LET actor == caller.actor
        scope == st.scopes[role]
    IN  IF actor = owner
        THEN IF caller.signer # actor THEN Returned(HostTrap("require_auth"), st)
             ELSE Returned(Ok, st)
        ELSE IF scope = NoScope \/ scope.owner # owner
        THEN Returned(Error("SessionKeyNotAuthorized"), st)
        ELSE IF scope.delegate # actor
        THEN Returned(Error("SessionKeyNotAuthorized"), st)
        ELSE IF scope.role # role
        THEN Returned(Error("SessionKeyRoleMismatch"), st)
        ELSE IF scope.expires_ledger < st.ledger
        THEN Returned(Error("SessionKeyExpired"), st)
        ELSE IF ~MaskAllows(scope.allow_mask, method_flag)
        THEN Returned(Error("SessionKeyMethodNotAllowed"), st)
        ELSE IF scope.max_writes # 0 /\ scope.writes_used >= scope.max_writes
        THEN Returned(Error("SessionKeyWriteLimitExceeded"), st)
        ELSE IF caller.signer # actor THEN Returned(HostTrap("require_auth"), st)
        ELSE Returned(Ok, [st EXCEPT !.scopes[role].writes_used = @ + 1])

\* load_session_core / load_session_pair
load_session_core(st) ==
    IF st.core = NoSession THEN Error("SessionNotFound") ELSE Ok
load_session_pair(st) ==
    IF st.core = NoSession THEN Error("SessionNotFound")
    ELSE IF st.rt = NoRuntime THEN Error("RuntimeNotInitialized")
    ELSE Ok

\* ensure_not_ended
ensure_not_ended(s) == IF s.ended THEN Error("GameAlreadyEnded") ELSE Ok

\* verify_session_turn
verify_session_turn(pis, s_id, turn, s_idx, t_idx) ==
    IF s_idx >= Len(pis) THEN Error("ProofSessionMismatch")
    ELSE IF t_idx >= Len(pis) THEN Error("ProofTurnMismatch")
    ELSE IF FieldBytes(pis[s_idx + 1]) # bytes32_from_u32(s_id)
    THEN Error("ProofSessionMismatch")
    ELSE IF FieldBytes(pis[t_idx + 1]) # bytes32_from_u32(turn)
    THEN Error("ProofTurnMismatch")
    ELSE Ok

\* verify_u32_field on a caller's words
verify_u32_word(pis, idx, expected, err) ==
    verify_u32_field([i \in DOMAIN pis |-> FieldBytes(pis[i])], idx, expected, err)

\* A new runtime, as start_game_ext and initialize_session_runtime make it.
NewRuntime(chad_x, chad_y, alpha_max) ==
    [exists |-> TRUE, chad_x |-> chad_x, chad_y |-> chad_y, battery |-> INITIAL_BATTERY,
     turn |-> U32Zero, phase |-> "Dispatcher", ended |-> FALSE, alpha |-> alpha_max,
     pending_ping_tower |-> None, moved_this_turn |-> FALSE,
     assassin_moves_this_turn |-> 0, chad_hidden |-> FALSE, chad_hide_streak |-> 0]

\* start_game_ext
start_game_ext(st, dispatcher, assassin, chad_x, chad_y, alpha_max, strong_radius_sq) ==
    Returned(Ok,
        [st EXCEPT
            !.core = [exists |-> TRUE, session_id |-> ToU32(SessionId),
                      dispatcher |-> dispatcher, assassin |-> assassin,
                      commitment |-> None, alpha_max |-> alpha_max,
                      strong_radius_sq |-> strong_radius_sq, insecure_mode |-> FALSE,
                      init_chad_x |-> chad_x, init_chad_y |-> chad_y,
                      runtime_initialized |-> TRUE],
            !.rt = NewRuntime(chad_x, chad_y, alpha_max)])

\* n as u32, for an i128 n from -65536 up
I128AsU32(n) == IF n >= 0 THEN ToU32(n) ELSE U32(65535, 65536 + n)

\* start_game
start_game(st, dispatcher, assassin, alpha_max, strong_radius_sq) ==
    start_game_ext(st, dispatcher, assassin, InitChadX, InitChadY, I128AsU32(alpha_max),
                   strong_radius_sq)

\* set_verifiers, signed by signer
set_verifiers(st, admin, signer) ==
    IF signer # admin THEN Returned(HostTrap("require_auth"), st)
    ELSE Returned(Ok, [st EXCEPT !.verifiers_set = TRUE])

\* authorize_session_key
authorize_session_key(st, owner, signer, delegate, ttl_ledgers, max_writes, dispatcher_allow_mask, assassin_allow_mask) ==
    LET scope(role, mask) ==
            [stored |-> TRUE, owner |-> owner, delegate |-> delegate, role |-> role,
             expires_ledger |-> st.ledger + ttl_ledgers, max_writes |-> max_writes,
             writes_used |-> 0, allow_mask |-> mask]
        st1 == IF owner = st.core.dispatcher /\ dispatcher_allow_mask # 0
               THEN [st EXCEPT !.scopes["Dispatcher"] = scope("Dispatcher", dispatcher_allow_mask)]
               ELSE st
        st2 == IF owner = st.core.assassin /\ assassin_allow_mask # 0
               THEN [st1 EXCEPT !.scopes["Assassin"] = scope("Assassin", assassin_allow_mask)]
               ELSE st1
    IN  IF signer # owner THEN Returned(HostTrap("require_auth"), st)
        ELSE IF load_session_core(st) # Ok THEN Returned(load_session_core(st), st)
        ELSE Returned(Ok, st2)

\* revoke_session_key
revoke_session_key(st, owner, signer, role) ==
    IF signer # owner THEN Returned(HostTrap("require_auth"), st)
    ELSE IF st.scopes[role] # NoScope /\ st.scopes[role].owner = owner
    THEN Returned(Ok, [st EXCEPT !.scopes[role] = NoScope])
    ELSE Returned(Ok, st)

\* initialize_session_runtime
initialize_session_runtime(st, caller) ==
    LET auth == require_owner_or_delegate(st, st.core.dispatcher, caller, "Dispatcher",
                                          SESSION_METHOD_DISPATCH)
        c == auth.st.core
    IN  IF load_session_core(st) # Ok THEN Returned(load_session_core(st), st)
        ELSE IF auth.result # Ok THEN Returned(auth.result, st)
        ELSE IF c.runtime_initialized THEN Returned(Ok, auth.st)
        ELSE Returned(Ok, [auth.st EXCEPT
                              !.rt = NewRuntime(c.init_chad_x, c.init_chad_y, c.alpha_max),
                              !.core.runtime_initialized = TRUE])

\* set_insecure_mode, signed by signer
set_insecure_mode(st, admin, signer, enabled) ==
    IF signer # admin THEN Returned(HostTrap("require_auth"), st)
    ELSE IF load_session_core(st) # Ok THEN Returned(load_session_core(st), st)
    ELSE Returned(Ok, [st EXCEPT !.core.insecure_mode = enabled])

\* lock_secure_mode
lock_secure_mode(st, caller) ==
    LET auth == require_owner_or_delegate(st, st.core.dispatcher, caller, "Dispatcher",
                                          SESSION_METHOD_LOCK_SECURE_MODE)
    IN  IF load_session_core(st) # Ok THEN Returned(load_session_core(st), st)
        ELSE IF auth.result # Ok THEN Returned(auth.result, st)
        ELSE Returned(Ok, [auth.st EXCEPT !.core.insecure_mode = FALSE])

\* hide
hide(st, commitment) ==
    IF load_session_pair(st) # Ok THEN Returned(load_session_pair(st), st)
    ELSE IF ensure_not_ended(st.rt) # Ok THEN Returned(ensure_not_ended(st.rt), st)
    ELSE IF st.core.commitment.some THEN Returned(Error("InvalidHide"), st)
    ELSE Returned(Ok, [st EXCEPT !.core.commitment = Some(commitment)])

\* Chad's commands.  GoRoom moves Chad by the floor plan, which is not among
\* the source files; the commands here are Stay, Hide and WalkGarden.
ChadStay == [kind |-> "Stay"]
ChadHide == [kind |-> "Hide"]
ChadWalkGarden(dir) == [kind |-> "WalkGarden", dir |-> dir]

\* GoRoom(room_id); door is what find_door answers for Chad's room and the
\* room asked for, which the floor plan decides.
ChadGoRoom(room_id, door) == [kind |-> "GoRoom", room_id |-> room_id, door |-> door]
Tile(x, y) == [x |-> x, y |-> y]

\* room_code_from_id
room_code_from_id(id) ==
    CASE id = 0 -> "G" [] id = 1 -> "H" [] id = 2 -> "L" [] id = 3 -> "S" [] id = 4 -> "B"
      [] id = 5 -> "D" [] id = 6 -> "K" [] id = 7 -> "E" [] OTHER -> "H"

\* The tile GoRoom falls back to when there is no door to to_room.
FallbackTile(to_room) ==
    CASE to_room = "G" -> Tile(5, 1) [] to_room = "L" -> Tile(1, 4) [] to_room = "S" -> Tile(8, 4)
      [] to_room = "B" -> Tile(1, 7) [] to_room = "D" -> Tile(8, 6) [] to_room = "K" -> Tile(8, 8)
      [] to_room = "E" -> Tile(4, 8) [] OTHER -> Tile(4, 5)

\* A faulty match on command, which lets Chad hide turn after turn.
apply_command_hiding(s, command) ==
    IF command.kind = "Hide"
    THEN Returned(Ok, [s EXCEPT !.chad_hidden = TRUE, !.chad_hide_streak = @ + 1])
    ELSE Returned(Ok, [s EXCEPT !.chad_hide_streak = 0, !.chad_hidden = FALSE])

\* The match on command in dispatch: the runtime after, or the error.
apply_command(s, command) ==
    IF command.kind = "Hide"
    THEN IF s.chad_hide_streak >= 2 THEN Returned(Error("InvalidHide"), s)
         ELSE Returned(Ok, [s EXCEPT !.chad_hidden = TRUE, !.chad_hide_streak = @ + 1])
    ELSE IF command.kind = "Stay"
    THEN Returned(Ok, [s EXCEPT !.chad_hide_streak = 0, !.chad_hidden = FALSE])
    ELSE IF command.kind = "GoRoom"
    THEN LET to == IF command.door.some THEN command.door.value
                   ELSE FallbackTile(room_code_from_id(command.room_id))
         IN  Returned(Ok, [s EXCEPT !.chad_hide_streak = 0, !.chad_hidden = FALSE,
                                    !.chad_x = to.x, !.chad_y = to.y])
    ELSE LET s1 == [s EXCEPT !.chad_hide_streak = 0, !.chad_hidden = FALSE]
         IN  IF command.dir = 0
             THEN Returned(Ok, [s1 EXCEPT !.chad_y = IF @ = 0 THEN 0 ELSE @ - 1])
             ELSE IF command.dir = 1 THEN Returned(Ok, [s1 EXCEPT !.chad_x = @ + 1])
             ELSE IF command.dir = 2 THEN Returned(Ok, [s1 EXCEPT !.chad_y = @ + 1])
             ELSE IF command.dir = 3
             THEN Returned(Ok, [s1 EXCEPT !.chad_x = IF @ = 0 THEN 0 ELSE @ - 1])
             ELSE Returned(Error("InvalidMove"), s)

\* A faulty dispatch, which plays on with an empty battery.
dispatch_on_empty(st, caller, tower_id, command) ==
    LET auth == require_owner_or_delegate(st, st.core.dispatcher, caller, "Dispatcher",
                                          SESSION_METHOD_DISPATCH)
        s == auth.st.rt
        paid == [s EXCEPT !.battery = @ - PING_COST]
        commanded == apply_command(paid, command)
        s1 == [commanded.st EXCEPT
                  !.pending_ping_tower = Some(tower_id), !.phase = "Assassin",
                  !.moved_this_turn = FALSE, !.assassin_moves_this_turn = 0]
    IN  IF load_session_pair(st) # Ok THEN Returned(load_session_pair(st), st)
        ELSE IF auth.result # Ok THEN Returned(auth.result, st)
        ELSE IF ensure_not_ended(s) # Ok THEN Returned(ensure_not_ended(s), st)
        ELSE IF s.phase # "Dispatcher" THEN Returned(Error("NotDispatcherTurn"), st)
        ELSE IF s.battery < PING_COST THEN Returned(Error("BatteryTooLow"), st)
        ELSE IF commanded.result # Ok THEN Returned(commanded.result, st)
        ELSE Returned(Ok, [auth.st EXCEPT !.rt = s1])

\* dispatch
dispatch(st, caller, tower_id, command) ==
    LET auth == require_owner_or_delegate(st, st.core.dispatcher, caller, "Dispatcher",
                                          SESSION_METHOD_DISPATCH)
        s == auth.st.rt
        paid == [s EXCEPT !.battery = @ - PING_COST]
        commanded == apply_command(paid, command)
        s1 == [commanded.st EXCEPT
                  !.pending_ping_tower = Some(tower_id), !.phase = "Assassin",
                  !.moved_this_turn = FALSE, !.assassin_moves_this_turn = 0]
        s2 == IF s1.battery = 0 THEN [s1 EXCEPT !.ended = TRUE] ELSE s1
    IN  IF load_session_pair(st) # Ok THEN Returned(load_session_pair(st), st)
        ELSE IF auth.result # Ok THEN Returned(auth.result, st)
        ELSE IF ensure_not_ended(s) # Ok THEN Returned(ensure_not_ended(s), st)
        ELSE IF s.phase # "Dispatcher" THEN Returned(Error("NotDispatcherTurn"), st)
        ELSE IF s.battery < PING_COST THEN Returned(Error("BatteryTooLow"), st)
        ELSE IF commanded.result # Ok THEN Returned(commanded.result, st)
        ELSE Returned(Ok, [auth.st EXCEPT !.rt = s2])

\* request_ping
request_ping(st, caller, tower_id) == dispatch(st, caller, tower_id, ChadStay)

\* dispatcher_command
dispatcher_command(st, caller, command) == dispatch(st, caller, 0, command)

\* The call to the proof verifier contract: verifier_ok is its answer.
verify_proof(st, verifier_ok) ==
    IF ~st.verifiers_set THEN Error("VerifierNotSet")
    ELSE IF ~verifier_ok THEN Error("InvalidProof")
    ELSE Ok

\* Faulty checks of submit_ping_proof, which leave public input 5 unread.
ping_proof_checks_without_d2(st, s, tower_id, d2, verifier_ok, pis) ==
    LET c == st.core
        tower == Towers[tower_id + 1]
        turn_check == verify_session_turn(pis, c.session_id, s.turn, 2, 3)
        x_check == verify_u32_word(pis, 0, ToU32(tower.x), "UnexpectedTower")
        y_check == verify_u32_word(pis, 1, ToU32(tower.y), "UnexpectedTower")
    IN  IF tower_id \notin 0..3 THEN Error("UnexpectedTower")
        ELSE IF turn_check # Ok THEN turn_check
        ELSE IF x_check # Ok THEN x_check
        ELSE IF y_check # Ok THEN y_check
        ELSE IF Len(pis) <= 4 THEN Error("CommitmentMismatch")
        ELSE IF c.commitment.some /\ pis[5] # c.commitment.value
        THEN Error("CommitmentMismatch")
        ELSE verify_proof(st, verifier_ok)

\* The checks of submit_ping_proof in secure mode, in the code's order.
ping_proof_checks(st, s, tower_id, d2, verifier_ok, pis) ==
    LET c == st.core
        tower == Towers[tower_id + 1]
        turn_check == verify_session_turn(pis, c.session_id, s.turn, 2, 3)
        x_check == verify_u32_word(pis, 0, ToU32(tower.x), "UnexpectedTower")
        y_check == verify_u32_word(pis, 1, ToU32(tower.y), "UnexpectedTower")
        d2_check == verify_u32_word(pis, 5, ToU32(d2), "D2Mismatch")
    IN  IF tower_id \notin 0..3 THEN Error("UnexpectedTower")
        ELSE IF turn_check # Ok THEN turn_check
        ELSE IF x_check # Ok THEN x_check
        ELSE IF y_check # Ok THEN y_check
        ELSE IF Len(pis) <= 4 THEN Error("CommitmentMismatch")
        ELSE IF c.commitment.some /\ pis[5] # c.commitment.value
        THEN Error("CommitmentMismatch")
        ELSE IF d2_check # Ok THEN d2_check
        ELSE verify_proof(st, verifier_ok)

\* submit_ping_proof
submit_ping_proof(st, caller, tower_id, d2, verifier_ok, pis) ==
    LET auth == require_owner_or_delegate(st, st.core.assassin, caller, "Assassin",
                                          SESSION_METHOD_SUBMIT_PING_PROOF)
        c == auth.st.core
        s == auth.st.rt
        checks == ping_proof_checks(auth.st, s, tower_id, d2, verifier_ok, pis)
        c1 == IF ~c.insecure_mode /\ ~c.commitment.some
              THEN [c EXCEPT !.commitment = Some(pis[5])]
              ELSE c
    IN  IF load_session_pair(st) # Ok THEN Returned(load_session_pair(st), st)
        ELSE IF auth.result # Ok THEN Returned(auth.result, st)
        ELSE IF ensure_not_ended(s) # Ok THEN Returned(ensure_not_ended(s), st)
        ELSE IF s.phase # "Assassin" THEN Returned(Error("NotAssassinTurn"), st)
        ELSE IF s.pending_ping_tower # Some(tower_id)
        THEN Returned(Error("UnexpectedTower"), st)
        ELSE IF ~c.insecure_mode /\ checks # Ok THEN Returned(checks, st)
        ELSE Returned(OkValue(d2),
                      [auth.st EXCEPT !.rt.pending_ping_tower = None, !.core = c1])

\* The checks of submit_turn_status_proof in secure mode.
turn_status_checks(st, s, d2_chad, verifier_ok, pis) ==
    LET c == st.core
        turn_check == verify_session_turn(pis, c.session_id, s.turn, 2, 3)
        x_check == verify_u32_word(pis, 0, ToU32(s.chad_x), "ChadCoordMismatch")
        y_check == verify_u32_word(pis, 1, ToU32(s.chad_y), "ChadCoordMismatch")
        d2_check == verify_u32_word(pis, 5, ToU32(d2_chad), "D2ChadMismatch")
    IN  IF ~c.commitment.some THEN Error("CommitmentNotSet")
        ELSE IF turn_check # Ok THEN turn_check
        ELSE IF x_check # Ok THEN x_check
        ELSE IF y_check # Ok THEN y_check
        ELSE IF Len(pis) <= 4 THEN Error("CommitmentMismatch")
        ELSE IF pis[5] # c.commitment.value THEN Error("CommitmentMismatch")
        ELSE IF d2_check # Ok THEN d2_check
        ELSE verify_proof(st, verifier_ok)

\* end_game_internal
end_game_internal(s, dispatcher_won) == [s EXCEPT !.ended = TRUE]

\* A faulty outcome of an accepted turn status, which lets alpha stand.
turn_status_outcome_still(c, s, d2_chad) ==
    IF d2_chad = 0 THEN Returned(Ok, end_game_internal(s, FALSE))
    ELSE IF s.alpha = U32Zero THEN Returned(Ok, end_game_internal(s, FALSE))
    ELSE Returned(Ok, [s EXCEPT !.turn = SaturatingInc(@), !.phase = "Dispatcher",
                                !.moved_this_turn = FALSE, !.assassin_moves_this_turn = 0])

\* What an accepted turn status does to the runtime.  s.alpha + 1 is a plain
\* u32 addition: at u32::MAX it panics in a build with overflow checks and
\* wraps to 0 in one without.
turn_status_outcome(c, s, d2_chad) ==
    LET overflows == s.alpha = U32Max
        raised == IF overflows THEN U32Zero ELSE SaturatingInc(s.alpha)
        alpha == IF d2_chad <= c.strong_radius_sq THEN SaturatingDec(s.alpha)
                 ELSE U32Min(raised, c.alpha_max)
        s1 == [s EXCEPT !.alpha = alpha]
    IN  IF d2_chad = 0 THEN Returned(Ok, end_game_internal(s, FALSE))
        ELSE IF d2_chad > c.strong_radius_sq /\ overflows /\ build.overflow_checks
        THEN Returned(HostTrap("attempt to add with overflow"), s)
        ELSE IF s1.alpha = U32Zero THEN Returned(Ok, end_game_internal(s1, FALSE))
        ELSE IF s1.battery = 0 THEN Returned(Ok, end_game_internal(s1, TRUE))
        ELSE Returned(Ok, [s1 EXCEPT !.turn = SaturatingInc(@), !.phase = "Dispatcher",
                                     !.moved_this_turn = FALSE,
                                     !.assassin_moves_this_turn = 0])

\* submit_turn_status_proof
submit_turn_status_proof(st, caller, d2_chad, verifier_ok, pis) ==
    LET auth == require_owner_or_delegate(st, st.core.assassin, caller, "Assassin",
                                          SESSION_METHOD_SUBMIT_TURN_STATUS_PROOF)
        c == auth.st.core
        s == auth.st.rt
        checks == turn_status_checks(auth.st, s, d2_chad, verifier_ok, pis)
        outcome == turn_status_outcome(c, s, d2_chad)
    IN  IF load_session_pair(st) # Ok THEN Returned(load_session_pair(st), st)
        ELSE IF auth.result # Ok THEN Returned(auth.result, st)
        ELSE IF ensure_not_ended(s) # Ok THEN Returned(ensure_not_ended(s), st)
        ELSE IF s.phase # "Assassin" THEN Returned(Error("NotAssassinTurn"), st)
        ELSE IF s.assassin_moves_this_turn = 0 THEN Returned(Error("AssassinMustMove"), st)
        ELSE IF ~c.insecure_mode /\ checks # Ok THEN Returned(checks, st)
        ELSE IF outcome.result # Ok THEN Returned(outcome.result, st)
        ELSE Returned(OkValue(d2_chad), [auth.st EXCEPT !.rt = outcome.st])

\* The checks of one move proof in secure mode.  get_unchecked on an index
\* the vector does not have is a host error.
move_proof_checks(st, c, s, new_commitment, verifier_ok, pis) ==
    LET turn_check == verify_session_turn(pis, c.session_id, s.turn, 0, 1)
    IN  IF ~c.commitment.some THEN Error("CommitmentNotSet")
        ELSE IF turn_check # Ok THEN turn_check
        ELSE IF Len(pis) <= 2 THEN HostTrap("get_unchecked")
        ELSE IF pis[3] # c.commitment.value THEN Error("CommitmentMismatch")
        ELSE IF Len(pis) <= 3 THEN HostTrap("get_unchecked")
        ELSE IF pis[4] # new_commitment THEN Error("CommitmentMismatch")
        ELSE verify_proof(st, verifier_ok)

MaxMoves(s) == IF s.chad_hidden THEN 6 ELSE 1

\* The session after an accepted move.
accept_move(st, new_commitment) ==
    [st EXCEPT !.core.commitment = Some(new_commitment),
               !.rt.moved_this_turn = TRUE,
               !.rt.assassin_moves_this_turn = @ + 1]

\* submit_move_proof
submit_move_proof(st, caller, new_commitment, verifier_ok, pis) ==
    LET auth == require_owner_or_delegate(st, st.core.assassin, caller, "Assassin",
                                          SESSION_METHOD_SUBMIT_MOVE_PROOF)
        c == auth.st.core
        s == auth.st.rt
        checks == move_proof_checks(auth.st, c, s, new_commitment, verifier_ok, pis)
    IN  IF load_session_pair(st) # Ok THEN Returned(load_session_pair(st), st)
        ELSE IF auth.result # Ok THEN Returned(auth.result, st)
        ELSE IF ensure_not_ended(s) # Ok THEN Returned(ensure_not_ended(s), st)
        ELSE IF s.phase # "Assassin" THEN Returned(Error("NotAssassinTurn"), st)
        ELSE IF s.pending_ping_tower.some THEN Returned(Error("PendingPingExists"), st)
        ELSE IF s.assassin_moves_this_turn >= MaxMoves(s)
        THEN Returned(Error("AlreadyMovedThisTurn"), st)
        ELSE IF ~c.insecure_mode /\ checks # Ok THEN Returned(checks, st)
        ELSE Returned(Ok, accept_move(auth.st, new_commitment))

\* The loop of submit_multi_move_proof from entry i on, on the session cur.
RECURSIVE multi_move_from(_, _, _, _)
multi_move_from(cur, entries, i, max_moves) ==
    IF i > Len(entries) THEN Returned(Ok, cur)
    ELSE LET entry == entries[i]
             checks == move_proof_checks(cur, cur.core, cur.rt, entry.new_commitment,
                                         entry.verifier_ok, entry.public_inputs)
         IN  IF cur.rt.assassin_moves_this_turn >= max_moves
             THEN Returned(Error("AlreadyMovedThisTurn"), cur)
             ELSE IF ~cur.core.insecure_mode /\ checks # Ok THEN Returned(checks, cur)
             ELSE multi_move_from(accept_move(cur, entry.new_commitment), entries, i + 1,
                                  max_moves)

\* submit_multi_move_proof
submit_multi_move_proof(st, caller, entries) ==
    LET auth == require_owner_or_delegate(st, st.core.assassin, caller, "Assassin",
                                          SESSION_METHOD_SUBMIT_MOVE_PROOF)
        s == auth.st.rt
        looped == multi_move_from(auth.st, entries, 1, MaxMoves(s))
    IN  IF load_session_pair(st) # Ok THEN Returned(load_session_pair(st), st)
        ELSE IF auth.result # Ok THEN Returned(auth.result, st)
        ELSE IF ensure_not_ended(s) # Ok THEN Returned(ensure_not_ended(s), st)
        ELSE IF s.phase # "Assassin" THEN Returned(Error("NotAssassinTurn"), st)
        ELSE IF s.pending_ping_tower.some THEN Returned(Error("PendingPingExists"), st)
        ELSE IF looped.result # Ok THEN Returned(looped.result, st)
        ELSE looped

\* commit_location
commit_location(st, caller, commitment) ==
    LET auth == require_owner_or_delegate(st, st.core.assassin, caller, "Assassin",
                                          SESSION_METHOD_COMMIT_LOCATION)
        hidden == hide(auth.st, commitment)
    IN  IF load_session_core(st) # Ok THEN Returned(load_session_core(st), st)
        ELSE IF auth.result # Ok THEN Returned(auth.result, st)
        ELSE IF hidden.result # Ok THEN Returned(hidden.result, st)
        ELSE hidden

\* recharge
recharge(st, caller) ==
    LET auth == require_owner_or_delegate(st, st.core.dispatcher, caller, "Dispatcher",
                                          SESSION_METHOD_RECHARGE)
        s == auth.st.rt
        charged == IF s.battery + RECHARGE_AMOUNT < BATTERY_MAX
                   THEN s.battery + RECHARGE_AMOUNT ELSE BATTERY_MAX
    IN  IF load_session_pair(st) # Ok THEN Returned(load_session_pair(st), st)
        ELSE IF auth.result # Ok THEN Returned(auth.result, st)
        ELSE Returned(Ok, [auth.st EXCEPT
                              !.rt.battery = charged, !.rt.phase = "Assassin",
                              !.rt.moved_this_turn = FALSE,
                              !.rt.assassin_moves_this_turn = 0])

\* A faulty assassin_tick, which asks for no move in secure mode either.
assassin_tick_without_move(st, caller, d2_chad) ==
    LET auth == require_owner_or_delegate(st, st.core.assassin, caller, "Assassin",
                                          SESSION_METHOD_ASSASSIN_TICK)
        s == auth.st.rt
    IN  IF load_session_pair(st) # Ok THEN Returned(load_session_pair(st), st)
        ELSE IF auth.result # Ok THEN Returned(auth.result, st)
        ELSE IF ensure_not_ended(s) # Ok THEN Returned(ensure_not_ended(s), st)
        ELSE IF s.phase # "Assassin" THEN Returned(Error("NotAssassinTurn"), st)
        ELSE Returned(Ok, [auth.st EXCEPT
                              !.rt.turn = SaturatingInc(@), !.rt.phase = "Dispatcher",
                              !.rt.moved_this_turn = FALSE,
                              !.rt.assassin_moves_this_turn = 0])

\* assassin_tick
assassin_tick(st, caller, d2_chad) ==
    LET auth == require_owner_or_delegate(st, st.core.assassin, caller, "Assassin",
                                          SESSION_METHOD_ASSASSIN_TICK)
        c == auth.st.core
        s == auth.st.rt
    IN  IF load_session_pair(st) # Ok THEN Returned(load_session_pair(st), st)
        ELSE IF auth.result # Ok THEN Returned(auth.result, st)
        ELSE IF ensure_not_ended(s) # Ok THEN Returned(ensure_not_ended(s), st)
        ELSE IF s.phase # "Assassin" THEN Returned(Error("NotAssassinTurn"), st)
        ELSE IF ~c.insecure_mode /\ s.assassin_moves_this_turn = 0
        THEN Returned(Error("AssassinMustMove"), st)
        ELSE Returned(Ok, [auth.st EXCEPT
                              !.rt.turn = SaturatingInc(@), !.rt.phase = "Dispatcher",
                              !.rt.moved_this_turn = FALSE,
                              !.rt.assassin_moves_this_turn = 0])

----------------------------------------------------------------------------
(* The game contract as a state machine: one action per contract method.   *)

\* The addresses that call the game contract, and who signs: each address
\* for itself, and a player's address used by the other player.
Players == {"dispatcher", "assassin", "delegate"}
Caller(actor, signer) == [actor |-> actor, signer |-> signer]
DispatcherCallers ==
    {Caller("dispatcher", "dispatcher"), Caller("assassin", "assassin"),
     Caller("dispatcher", "assassin")}
AssassinCallers ==
    {Caller("assassin", "assassin"), Caller("dispatcher", "dispatcher"),
     Caller("assassin", "dispatcher")}
\* The callers where session keys are in use.
KeyCallers == {Caller(a, a) : a \in Players}
GameAdmin == "game_admin"

\* The commitments, towers, distances and commands the callers use.
Commitment1 == Field(1, ToU32(1))
Commitment2 == Field(2, ToU32(70000))
Commitments == {Commitment1, Commitment2}
PingTower == 0
ProofTowers == {0, 4}
PingD2 == 1
ChadDistances == {0, 1, 9}
ChadCommands == {ChadHide, ChadWalkGarden(7)}
AlphaMax == 1
StrongRadiusSq == 4
AllowAll == 255
KeyTtl == 1
KeyMaxWrites == 1

\* The commitment and the turn of the session, for building public inputs.
CurrentCommitment ==
    IF game.core # NoSession /\ game.core.commitment.some
    THEN game.core.commitment.value
    ELSE Commitment1
CurrentTurn == IF game.rt = NoRuntime THEN U32Zero ELSE game.rt.turn
CurrentChad ==
    IF game.rt = NoRuntime THEN [x |-> InitChadX, y |-> InitChadY]
    ELSE [x |-> game.rt.chad_x, y |-> game.rt.chad_y]

\* Public inputs as the circuits lay them out, for the session's state.
PingPublicInputs(tower_id, d2) ==
    LET tower == Towers[IF tower_id \in 0..3 THEN tower_id + 1 ELSE 1]
    IN  <<U32Field(tower.x), U32Field(tower.y), U32Field(SessionId), Field(0, CurrentTurn),
          CurrentCommitment, U32Field(d2)>>
TurnStatusPublicInputs(d2_chad) ==
    <<U32Field(CurrentChad.x), U32Field(CurrentChad.y), U32Field(SessionId),
      Field(0, CurrentTurn), CurrentCommitment, U32Field(d2_chad)>>
MovePublicInputs(old_commitment, new_commitment) ==
    <<U32Field(SessionId), Field(0, CurrentTurn), old_commitment, new_commitment>>

\* A proof with its public inputs: right, refused by the verifier, or with
\* the public inputs cut down to the session and the turn.
ProofKinds == {"valid", "refused", "short"}
\* The proofs a caller submits: the assassin of every kind, the others valid.
ProofCalls ==
    {<<caller, kind>> \in AssassinCallers \X ProofKinds :
        caller = Caller("assassin", "assassin") \/ kind = "valid"}
ProofOk(kind) == kind # "refused"
Inputs(kind, pis) == IF kind = "short" THEN SubSeq(pis, 1, 2) ELSE pis

\* The entries of a multi-move call that chains through new commitments.
RECURSIVE MoveEntries(_, _, _)
MoveEntries(old_commitment, new_commitments, kind) ==
    IF new_commitments = <<>> THEN <<>>
    ELSE <<[new_commitment |-> Head(new_commitments), verifier_ok |-> ProofOk(kind),
            public_inputs |->
                Inputs(kind, MovePublicInputs(old_commitment, Head(new_commitments)))]>>
         \o MoveEntries(Head(new_commitments), Tail(new_commitments), kind)
MoveChains == {<<>>, <<Commitment2, Commitment1>>}

NoGameCall == [method |-> "none"]

GameIdleFor(turns) ==
    /\ game = NoStorage
    /\ g_call = NoGameCall
    /\ g_out = NoResult
    /\ g_before = NoStorage
    /\ g_locked = FALSE
    /\ g_moves = 0
    /\ g_turns = turns
GameIdle == GameIdleFor(MaxTurn)

\* The number of moves a call had accepted.
AcceptedMoves(made, result) ==
    IF result # Ok THEN 0
    ELSE IF made.method = "submit_move_proof" THEN 1
    ELSE IF made.method = "submit_multi_move_proof" THEN Len(made.entries)
    ELSE 0

\* The storage is within the bounds of the model.
WithinBounds(st) ==
    /\ st.rt # NoRuntime => st.rt.turn.hi = 0 /\ st.rt.turn.lo <= g_turns
    /\ st.rt # NoRuntime => st.rt.assassin_moves_this_turn <= MaxMovesInTurn
    /\ \A role \in Roles :
           st.scopes[role] # NoScope => st.scopes[role].writes_used <= MaxWritesUsed

\* A call of a contract method that returned ret.  g_moves counts the moves
\* accepted while the turn counter holds its value; g_locked says that
\* lock_secure_mode has succeeded.
GameCall(made, ret) ==
    /\ g_call = NoGameCall
    /\ WithinBounds(ret.st)
    /\ game' = ret.st
    /\ g_call' = made
    /\ g_out' = ret.result
    /\ g_before' = game
    /\ g_locked' = (g_locked \/ (made.method = "lock_secure_mode" /\ ret.result = Ok))
    /\ g_moves' = IF game.rt = NoRuntime \/ ret.st.rt.turn # game.rt.turn
                  THEN AcceptedMoves(made, ret.result)
                  ELSE g_moves + AcceptedMoves(made, ret.result)
    /\ g_moves' <= MaxMovesInTurn
    /\ UNCHANGED <<g_turns, verifier_vars, enc_vars, zk_vars, calc_vars>>

\* The game hub registers a session id once.
StartGame(alpha_max, strong_radius_sq) ==
    /\ game.core = NoSession
    /\ GameCall([method |-> "start_game"],
                start_game(game, "dispatcher", "assassin", alpha_max, strong_radius_sq))

SetVerifiers(signer) ==
    GameCall([method |-> "set_verifiers", signer |-> signer],
             set_verifiers(game, GameAdmin, signer))

AuthorizeSessionKey(owner, signer, delegate) ==
    GameCall([method |-> "authorize_session_key", owner |-> owner, signer |-> signer,
              delegate |-> delegate],
             authorize_session_key(game, owner, signer, delegate, KeyTtl, KeyMaxWrites,
                                   AllowAll, AllowAll))

RevokeSessionKey(owner, signer, role) ==
    GameCall([method |-> "revoke_session_key", owner |-> owner, signer |-> signer,
              role |-> role],
             revoke_session_key(game, owner, signer, role))

InitializeSessionRuntime(caller) ==
    GameCall([method |-> "initialize_session_runtime", caller |-> caller],
             initialize_session_runtime(game, caller))

SetInsecureMode(signer, enabled) ==
    GameCall([method |-> "set_insecure_mode", signer |-> signer, enabled |-> enabled],
             set_insecure_mode(game, GameAdmin, signer, enabled))

LockSecureMode(caller) ==
    GameCall([method |-> "lock_secure_mode", caller |-> caller],
             lock_secure_mode(game, caller))

HideLocation(commitment) ==
    GameCall([method |-> "hide", commitment |-> commitment], hide(game, commitment))

CommitLocation(caller, commitment) ==
    GameCall([method |-> "commit_location", caller |-> caller, commitment |-> commitment],
             commit_location(game, caller, commitment))

Dispatch(caller, tower_id, command) ==
    GameCall([method |-> "dispatch", caller |-> caller, tower_id |-> tower_id,
              command |-> command],
             dispatch(game, caller, tower_id, command))

RequestPing(caller, tower_id) ==
    GameCall([method |-> "request_ping", caller |-> caller, tower_id |-> tower_id],
             request_ping(game, caller, tower_id))

DispatcherCommand(caller, command) ==
    GameCall([method |-> "dispatcher_command", caller |-> caller, command |-> command],
             dispatcher_command(game, caller, command))

Recharge(caller) ==
    GameCall([method |-> "recharge", caller |-> caller], recharge(game, caller))

SubmitPingProof(caller, tower_id, d2, kind) ==
    GameCall([method |-> "submit_ping_proof", caller |-> caller, tower_id |-> tower_id,
              d2 |-> d2, proof |-> kind],
             submit_ping_proof(game, caller, tower_id, d2, ProofOk(kind),
                               Inputs(kind, PingPublicInputs(tower_id, d2))))

SubmitTurnStatusProof(caller, d2_chad, kind) ==
    GameCall([method |-> "submit_turn_status_proof", caller |-> caller,
              d2_chad |-> d2_chad, proof |-> kind],
             submit_turn_status_proof(game, caller, d2_chad, ProofOk(kind),
                                      Inputs(kind, TurnStatusPublicInputs(d2_chad))))

SubmitMoveProof(caller, new_commitment, kind) ==
    GameCall([method |-> "submit_move_proof", caller |-> caller,
              new_commitment |-> new_commitment, proof |-> kind],
             submit_move_proof(game, caller, new_commitment, ProofOk(kind),
                               Inputs(kind, MovePublicInputs(CurrentCommitment,
                                                             new_commitment))))

SubmitMultiMoveProof(caller, new_commitments, kind) ==
    LET entries == MoveEntries(CurrentCommitment, new_commitments, kind)
    IN  GameCall([method |-> "submit_multi_move_proof", caller |-> caller,
                  entries |-> entries],
                 submit_multi_move_proof(game, caller, entries))

AssassinTick(caller) ==
    GameCall([method |-> "assassin_tick", caller |-> caller],
             assassin_tick(game, caller, 0))

\* The transaction of the last call is over: its record is dropped, and the
\* contract takes the next call.
Return ==
    /\ g_call # NoGameCall
    /\ g_call' = NoGameCall
    /\ g_out' = NoResult
    /\ g_before' = NoStorage
    /\ UNCHANGED <<game, g_locked, g_moves, g_turns, verifier_vars, enc_vars, zk_vars,
                   calc_vars>>

\* submit_ping_proof with public inputs of the caller's making.
SubmitPingInputs(caller, tower_id, d2, kind, public_inputs) ==
    GameCall([method |-> "submit_ping_proof", caller |-> caller, tower_id |-> tower_id,
              d2 |-> d2, proof |-> kind, public_inputs |-> public_inputs],
             submit_ping_proof(game, caller, tower_id, d2, ProofOk(kind), public_inputs))

\* authorize_session_key with a key of the given shape: its time to live,
\* its write limit and the methods it allows.
AuthorizeScopedKey(owner, delegate, shape) ==
    GameCall([method |-> "authorize_session_key", owner |-> owner, signer |-> owner,
              delegate |-> delegate, shape |-> shape],
             authorize_session_key(game, owner, owner, delegate, shape.ttl_ledgers,
                                   shape.max_writes, shape.dispatcher_allow_mask,
                                   shape.assassin_allow_mask))

\* The network closes a ledger between two calls.
AdvanceLedger ==
    /\ g_call = NoGameCall
    /\ game.ledger < LedgerSequence + MaxLedgers
    /\ game' = [game EXCEPT !.ledger = @ + 1]
    /\ UNCHANGED <<g_call, g_out, g_before, g_locked, g_moves, g_turns, verifier_vars, enc_vars,
                   zk_vars, calc_vars>>

\* No function of the verifier crate is being applied on its own.
NoCalc == [op |-> "none"]
CalcIdle == calc_call = NoCalc /\ calc_out = NoResult

\* The function of calc_call runs and returns value.
Returns(op, value) ==
    /\ calc_call.op = op
    /\ calc_out = NoResult
    /\ calc_out' = value
    /\ UNCHANGED <<calc_call, verifier_vars, enc_vars, zk_vars, game_vars>>

\* c[0] + c[1] x + ... + c[7] x^7 by Horner's rule.
RECURSIVE Horner(_, _, _)
Horner(coefficients, x, k) ==
    IF k > BATCHED_RELATION_PARTIAL_LENGTH - 1 THEN 0
    ELSE FrAdd(coefficients[k], FrMul(x, Horner(coefficients, x, k + 1)))

\* The polynomials whose evaluations the rounds are given: one or two
\* powers of x with coefficients 1 and 57.
Monomial(k, c) == [i \in Points |-> IF i = k THEN c ELSE 0]
Polynomials ==
    {Monomial(k, c) : k \in Points, c \in {1, 57}}
        \cup {[i \in Points |-> FrAdd(Monomial(k, 1)[i], Monomial(l, 57)[i])] :
                 k, l \in Points}

\* One round of sum-check on its own: the evaluations at 0..7 of a
\* polynomial, and a challenge.
TargetSumCalls ==
    {[op |-> "compute_next_target_sum", polynomial |-> c,
      round_univariate |-> [i \in Points |-> Horner(c, FrFromInt(i), 0)],
      round_challenge |-> chi] : c \in Polynomials, chi \in Fr}

\* The other contracts before any call to them.
OthersIdle == EncIdle /\ ZkIdle /\ GameIdle /\ CalcIdle

----------------------------------------------------------------------------
(* The state machine.                                                      *)

Init ==
    /\ build \in Builds
    /\ salt \in 0..MaxSalt
    /\ vk_blob = NoBlob
    /\ new_out = NoResult
    /\ verifier = NoVerifier
    /\ call = NoCall
    /\ out = NoOut
    /\ accepted = NoBlob
    /\ history = <<>>
    /\ OthersIdle

\* A caller builds a verifier from a VK blob.  The last verify call is kept
\* only while its (proof, pi) is one that has verified.
New(blob) ==
    LET r == UltraHonkVerifier_new(build, blob)
    IN  /\ vk_blob' = blob
        /\ new_out' = r.result
        /\ verifier' = r.self
        /\ call' = IF accepted = NoBlob THEN NoCall ELSE call
        /\ out' = NoOut
        /\ history' = <<>>
        /\ UNCHANGED <<build, salt, accepted, other_vars>>

\* A caller asks the verifier to verify: a first (proof, pi), or the one of
\* the call before again.  accepted keeps the first VK blob under which that
\* (proof, pi) verified.
Verify(proof_bytes, public_inputs_bytes) ==
    LET args == [made |-> TRUE, proof |-> proof_bytes, pi |-> public_inputs_bytes]
    IN  /\ verifier.exists
        /\ call = NoCall \/ call = args
        /\ call' = args
        /\ out' = verify(build, salt, verifier, proof_bytes, public_inputs_bytes)
        /\ accepted' = IF accepted # NoBlob THEN accepted
                       ELSE IF out'.result = Ok THEN vk_blob
                       ELSE NoBlob
        /\ UNCHANGED <<build, salt, vk_blob, new_out, verifier, history, other_vars>>

Next ==
    \/ \E blob \in VkBlobs : New(blob)
    \/ \E proof_bytes \in ProofBlobs, public_inputs_bytes \in PublicInputsBlobs :
          Verify(proof_bytes, public_inputs_bytes)

Spec == Init /\ [][Next]_vars

----------------------------------------------------------------------------
(* Any sequence of verify calls on one verifier.  Each call is logged with *)
(* the verifier it ran on and what it returned.                            *)

\* The blobs of the logged calls: an accepted proof, a proof sumcheck
\* refuses, a proof of the wrong size; matching and mismatching inputs.
LoggedVkBlobs == {BaseVk, [BaseVk EXCEPT !.hash = 1]}
LoggedProofBlobs ==
    {ProofBlob(1, <<1>>, 0, 0), ProofBlob(1, <<2>>, 0, 0), ProofBlob(2, <<1, 1>>, 0, 0)}
LoggedPublicInputsBlobs ==
    {[len |-> 32 * n, words |-> [w \in 1..n |-> 0]] : n \in {1, 2}}

\* A faulty verify, which remembers the calls it has answered and refuses a
\* (proof, pi) it has seen before.
VerifyLogged_once(proof_bytes, public_inputs_bytes) ==
    LET args == [made |-> TRUE, proof |-> proof_bytes, pi |-> public_inputs_bytes]
        seen == \E i \in DOMAIN history : history[i].call = args
        r == verify(build, salt, verifier, proof_bytes, public_inputs_bytes)
    IN  /\ verifier.exists
        /\ Len(history) < MaxCalls
        /\ call' = args
        /\ out' = IF seen THEN [r EXCEPT !.result = InvalidInput("replayed proof")] ELSE r
        /\ history' = Append(history, [call |-> args, self |-> verifier, result |-> out'.result])
        /\ UNCHANGED <<build, salt, vk_blob, new_out, verifier, accepted, other_vars>>

\* verify on any (proof, pi), whatever the calls before it.
VerifyLogged(proof_bytes, public_inputs_bytes) ==
    LET args == [made |-> TRUE, proof |-> proof_bytes, pi |-> public_inputs_bytes]
    IN  /\ verifier.exists
        /\ Len(history) < MaxCalls
        /\ call' = args
        /\ out' = verify(build, salt, verifier, proof_bytes, public_inputs_bytes)
        /\ history' = Append(history, [call |-> args, self |-> verifier, result |-> out'.result])
        /\ UNCHANGED <<build, salt, vk_blob, new_out, verifier, accepted, other_vars>>

NextLogged ==
    \/ \E blob \in LoggedVkBlobs : New(blob)
    \/ \E proof_bytes \in LoggedProofBlobs, public_inputs_bytes \in LoggedPublicInputsBlobs :
          VerifyLogged(proof_bytes, public_inputs_bytes)

SpecLogged == Init /\ [][NextLogged]_vars

----------------------------------------------------------------------------
(* The encoding of u32 public inputs and the checks that compare them.     *)

VerifierIdle ==
    /\ build = [overflow_checks |-> TRUE, usize_bits |-> 32]
    /\ salt = 0
    /\ vk_blob = NoBlob
    /\ new_out = NoResult
    /\ verifier = NoVerifier
    /\ call = NoCall
    /\ out = NoOut
    /\ accepted = NoBlob
    /\ history = <<>>

InitEncoding == VerifierIdle /\ EncIdle /\ ZkIdle /\ GameIdle /\ CalcIdle

NextEncoding ==
    \/ \E v \in U32Values : Encode(v)
    \/ Pristine /\ \E i \in 0..31, bit \in 0..7 : Flip(i, bit)
    \/ \E expected \in {enc_v} \cup ExpectedValues : CheckField(expected)

SpecEncoding == InitEncoding /\ [][NextEncoding]_vars

----------------------------------------------------------------------------
(* The Groth16 verifier contract after its constructor.                    *)

InitGroth16 == VerifierIdle /\ EncIdle /\ ZkIdle /\ GameIdle /\ CalcIdle

NextGroth16 ==
    \/ \E signer \in Addresses, admin \in Addresses, circuit_id \in CircuitIds,
          vk \in Groth16Vks : StoreVk(signer, admin, circuit_id, vk)
    \/ \E circuit_id \in CircuitIds : GetVk(circuit_id)
    \/ \E circuit_id \in CircuitIds, proof \in Groth16Proofs,
          public_inputs \in Groth16Inputs :
          VerifyGroth16(circuit_id, proof, public_inputs)

SpecGroth16 == InitGroth16 /\ [][NextGroth16]_vars

InitGame == VerifierIdle /\ EncIdle /\ ZkIdle /\ GameIdle /\ CalcIdle

NextGame ==
    \/ StartGame(AlphaMax, StrongRadiusSq)
    \/ \E signer \in {GameAdmin, "assassin"} : SetVerifiers(signer)
    \/ \E caller \in DispatcherCallers : InitializeSessionRuntime(caller)
    \/ \E signer \in {GameAdmin, "dispatcher"}, enabled \in BOOLEAN :
          SetInsecureMode(signer, enabled)
    \/ \E caller \in DispatcherCallers : LockSecureMode(caller)
    \/ \E commitment \in Commitments : HideLocation(commitment)
    \/ \E caller \in AssassinCallers : CommitLocation(caller, Commitment1)
    \/ \E caller \in DispatcherCallers : Dispatch(caller, PingTower, ChadStay)
    \/ \E caller \in DispatcherCallers : RequestPing(caller, PingTower)
    \/ \E caller \in DispatcherCallers, command \in ChadCommands :
          DispatcherCommand(caller, command)
    \/ \E caller \in DispatcherCallers : Recharge(caller)
    \/ \E pc \in ProofCalls, tower_id \in ProofTowers :
          SubmitPingProof(pc[1], tower_id, PingD2, pc[2])
    \/ \E pc \in ProofCalls, d2_chad \in ChadDistances :
          SubmitTurnStatusProof(pc[1], d2_chad, pc[2])
    \/ \E pc \in ProofCalls, new_commitment \in Commitments :
          SubmitMoveProof(pc[1], new_commitment, pc[2])
    \/ \E pc \in ProofCalls, new_commitments \in MoveChains :
          SubmitMultiMoveProof(pc[1], new_commitments, pc[2])
    \/ \E caller \in AssassinCallers : AssassinTick(caller)
    \/ Return

SpecGame == InitGame /\ [][NextGame]_vars

\* The game with session keys: the players hand keys to a delegate and take
\* them back, and players and delegate call the methods of both roles.
NextSessionKeys ==
    \/ StartGame(AlphaMax, StrongRadiusSq)
    \/ SetInsecureMode(GameAdmin, TRUE)
    \/ \E owner \in Players : \E signer \in {owner, "delegate"} :
          AuthorizeSessionKey(owner, signer, "delegate")
    \/ \E owner \in {"dispatcher", "assassin"}, role \in Roles :
          \E signer \in {owner, "delegate"} : RevokeSessionKey(owner, signer, role)
    \/ \E caller \in KeyCallers : InitializeSessionRuntime(caller)
    \/ \E caller \in KeyCallers : LockSecureMode(caller)
    \/ \E caller \in KeyCallers : CommitLocation(caller, Commitment1)
    \/ \E caller \in KeyCallers : Dispatch(caller, PingTower, ChadStay)
    \/ \E caller \in KeyCallers : RequestPing(caller, PingTower)
    \/ \E caller \in KeyCallers : DispatcherCommand(caller, ChadHide)
    \/ \E caller \in KeyCallers : Recharge(caller)
    \/ \E caller \in KeyCallers : SubmitPingProof(caller, PingTower, PingD2, "valid")
    \/ \E caller \in KeyCallers : SubmitTurnStatusProof(caller, 0, "valid")
    \/ \E caller \in KeyCallers : SubmitMoveProof(caller, Commitment2, "valid")
    \/ \E caller \in KeyCallers : SubmitMultiMoveProof(caller, <<Commitment1>>, "valid")
    \/ \E caller \in KeyCallers : AssassinTick(caller)
    \/ Return

SpecSessionKeys == InitGame /\ [][NextSessionKeys]_vars

\* The keys the players hand out: one without a write limit, one that
\* expires with the ledger it was stored in, one for a single method.
KeyShape(ttl, writes, dmask, amask) == [ttl_ledgers |-> ttl, max_writes |-> writes, dispatcher_allow_mask |-> dmask, assassin_allow_mask |-> amask]
KeyShapes ==
    {KeyShape(KeyTtl, 0, AllowAll, AllowAll),
     KeyShape(0, KeyMaxWrites, AllowAll, AllowAll),
     KeyShape(KeyTtl, KeyMaxWrites, SESSION_METHOD_RECHARGE, SESSION_METHOD_COMMIT_LOCATION)}
ScopeCallers == {Caller("delegate", "delegate"), Caller("dispatcher", "dispatcher")}

\* The life of session keys: ledgers close while the players store and
\* revoke keys and the delegate calls the methods of both roles.
NextKeyScopes ==
    \/ StartGame(AlphaMax, StrongRadiusSq)
    \/ AdvanceLedger
    \/ \E owner \in {"dispatcher", "assassin"}, shape \in KeyShapes :
          AuthorizeScopedKey(owner, "delegate", shape)
    \/ \E owner \in {"dispatcher", "assassin"}, role \in Roles :
          RevokeSessionKey(owner, owner, role)
    \/ \E caller \in ScopeCallers : InitializeSessionRuntime(caller)
    \/ \E caller \in ScopeCallers : LockSecureMode(caller)
    \/ \E caller \in ScopeCallers : Recharge(caller)
    \/ \E caller \in ScopeCallers : Dispatch(caller, PingTower, ChadStay)
    \/ \E caller \in ScopeCallers : CommitLocation(caller, Commitment1)
    \/ \E caller \in ScopeCallers : AssassinTick(caller)
    \/ Return

SpecKeyScopes == InitGame /\ [][NextKeyScopes]_vars

\* A field other than f: in byte 27, or in the u32 of bytes 28..31.
WrongField(f, byte) ==
    IF byte = 27 THEN Field(f.top + 1, f.low) ELSE Field(f.top, SaturatingInc(f.low))
\* The public inputs of a ping proof with the fields at the positions in
\* wrong replaced, cut down to the first len fields.
PingInputs(tower_id, d2, wrong, byte, len) ==
    LET right == PingPublicInputs(tower_id, d2)
    IN  SubSeq([i \in 1..6 |-> IF i \in wrong THEN WrongField(right[i], byte) ELSE right[i]],
               1, len)
\* The variants a caller submits: one or two fields wrong, or cut short.
PingInputVariants(tower_id, d2) ==
    {PingInputs(tower_id, d2, {i}, byte, 6) : i \in 1..6, byte \in {27, 31}}
        \cup {PingInputs(tower_id, d2, {i, j}, 31, 6) : i, j \in 1..6}
        \cup {PingInputs(tower_id, d2, {}, 31, len) : len \in 0..6}
PendingTowers == {0, 3, 4}
\* A distance of Chad beyond the strong radius.
FarD2 == 9

\* The secure game around the ping proof: the dispatcher asks for pings of
\* towers, the assassin answers with public inputs of every variant, and
\* moves and turn statuses carry the game into the next turn.
NextPingProof ==
    \/ StartGame(AlphaMax, StrongRadiusSq)
    \/ SetVerifiers(GameAdmin)
    \/ \E tower_id \in PendingTowers :
          RequestPing(Caller("dispatcher", "dispatcher"), tower_id)
    \/ \E tower_id \in PendingTowers, kind \in {"valid", "refused"} :
          \E public_inputs \in PingInputVariants(tower_id, PingD2) :
              SubmitPingInputs(Caller("assassin", "assassin"), tower_id, PingD2, kind,
                               public_inputs)
    \/ CommitLocation(Caller("assassin", "assassin"), Commitment2)
    \/ SubmitMoveProof(Caller("assassin", "assassin"), Commitment1, "valid")
    \/ SubmitTurnStatusProof(Caller("assassin", "assassin"), FarD2, "valid")
    \/ Return

SpecPingProof == InitGame /\ [][NextPingProof]_vars

\* The alpha_max the hub starts games with; -1 is u32::MAX as u32.
StatusAlphas == {0, 2, -1}

\* A game without proofs in which the assassin reports Chad near and far,
\* in a build with or without overflow checks.
InitTurnStatus ==
    /\ build \in {b \in Builds : b.usize_bits = 32}
    /\ salt = 0
    /\ vk_blob = NoBlob
    /\ new_out = NoResult
    /\ verifier = NoVerifier
    /\ call = NoCall
    /\ out = NoOut
    /\ accepted = NoBlob
    /\ history = <<>>
    /\ EncIdle
    /\ ZkIdle
    /\ GameIdleFor(MaxTurn + 1)
    /\ CalcIdle

NextTurnStatus ==
    \/ \E alpha_max \in StatusAlphas : StartGame(alpha_max, StrongRadiusSq)
    \/ SetInsecureMode(GameAdmin, TRUE)
    \/ \E caller \in DispatcherCallers : RequestPing(caller, PingTower)
    \/ \E caller \in DispatcherCallers : Recharge(caller)
    \/ \E caller \in AssassinCallers :
          SubmitPingProof(caller, PingTower, PingD2, "valid")
    \/ \E caller \in AssassinCallers : SubmitMoveProof(caller, Commitment1, "valid")
    \/ \E caller \in AssassinCallers, d2_chad \in ChadDistances :
          SubmitTurnStatusProof(caller, d2_chad, "valid")
    \/ Return

SpecTurnStatus == InitTurnStatus /\ [][NextTurnStatus]_vars

\* What the dispatcher has Chad do in a long game.
LongCommands ==
    {ChadStay, ChadHide, ChadWalkGarden(0), ChadWalkGarden(4), ChadGoRoom(2, None),
     ChadGoRoom(9, Some(Tile(4, 6)))}

\* A game without proofs, followed turn after turn until the battery is
\* empty.
InitLongGame ==
    VerifierIdle /\ EncIdle /\ ZkIdle /\ GameIdleFor(MaxLongTurn) /\ CalcIdle

NextLongGame ==
    \/ StartGame(AlphaMax, StrongRadiusSq)
    \/ SetInsecureMode(GameAdmin, TRUE)
    \/ \E command \in LongCommands :
          Dispatch(Caller("dispatcher", "dispatcher"), PingTower, command)
    \/ Recharge(Caller("dispatcher", "dispatcher"))
    \/ SubmitPingProof(Caller("assassin", "assassin"), PingTower, PingD2, "valid")
    \/ SubmitMoveProof(Caller("assassin", "assassin"), Commitment1, "valid")
    \/ SubmitTurnStatusProof(Caller("assassin", "assassin"), FarD2, "valid")
    \/ AssassinTick(Caller("assassin", "assassin"))
    \/ Return

SpecLongGame == InitLongGame /\ [][NextLongGame]_vars

\* One call of compute_next_target_sum, on each input.
InitTargetSum ==
    /\ VerifierIdle /\ EncIdle /\ ZkIdle /\ GameIdle
    /\ calc_call \in TargetSumCalls
    /\ calc_out = NoResult

ComputeNextTargetSum ==
    Returns("compute_next_target_sum",
            compute_next_target_sum(calc_call.round_univariate, calc_call.round_challenge))

NextTargetSum == ComputeNextTargetSum

SpecTargetSum == InitTargetSum /\ [][NextTargetSum]_vars

\* One call of compute_public_input_delta, on each input: up to MaxProvided
\* public inputs, three pairing point objects, offsets at both ends of u64.
DeltaBlobs ==
    UNION {{[len |-> 32 * m, words |-> w] : w \in [1..m -> {0, 1, 57}]} : m \in 0..MaxProvided}
PairingObjects ==
    {[i \in 1..PAIRING_POINTS_SIZE |-> 0],
     [i \in 1..PAIRING_POINTS_SIZE |-> i],
     [i \in 1..PAIRING_POINTS_SIZE |-> FrMul(i, 7 * i)]}
DeltaOffsets ==
    {U64(0), U64(1), WideSub(U64MaxMinusSeparator, U64(1)).val, U64MaxMinusSeparator, U64Max}
CircuitSizes == {U64(2), U64(4)}
DeltaCalls ==
    [op : {"compute_public_input_delta"}, public_inputs : DeltaBlobs,
     pairing_point_object : PairingObjects, beta : {0, 1, 50}, gamma : {0, 3, 100},
     offset : DeltaOffsets, n : CircuitSizes]

InitPublicInputDelta ==
    /\ build \in {b \in Builds : b.usize_bits = 32}
    /\ salt = 0
    /\ vk_blob = NoBlob
    /\ new_out = NoResult
    /\ verifier = NoVerifier
    /\ call = NoCall
    /\ out = NoOut
    /\ accepted = NoBlob
    /\ history = <<>>
    /\ EncIdle
    /\ ZkIdle
    /\ GameIdle
    /\ calc_call \in DeltaCalls
    /\ calc_out = NoResult

ComputePublicInputDelta ==
    Returns("compute_public_input_delta",
            compute_public_input_delta(build, calc_call.public_inputs,
                calc_call.pairing_point_object, calc_call.beta, calc_call.gamma,
                calc_call.offset, calc_call.n))

NextPublicInputDelta == ComputePublicInputDelta

SpecPublicInputDelta == InitPublicInputDelta /\ [][NextPublicInputDelta]_vars

\* One call of load_proof, for each log_n in 1..CONST_PROOF_SIZE_LOG_N, on
\* blobs of the length of that log_n.
LoadProofCalls ==
    {[op |-> "load_proof", log_n |-> U64(n),
      proof_bytes |-> ProofBlob(n, [r \in 1..n |-> u], e, g)] :
        n \in 1..CONST_PROOF_SIZE_LOG_N, u \in 1..Len(Univariates),
        e \in {0, 1}, g \in {0, 57}}

InitLoadProof ==
    /\ build \in Builds
    /\ salt = 0
    /\ vk_blob = NoBlob
    /\ new_out = NoResult
    /\ verifier = NoVerifier
    /\ call = NoCall
    /\ out = NoOut
    /\ accepted = NoBlob
    /\ history = <<>>
    /\ EncIdle
    /\ ZkIdle
    /\ GameIdle
    /\ calc_call \in LoadProofCalls
    /\ calc_out = NoResult

LoadProof ==
    Returns("load_proof", load_proof(build, calc_call.proof_bytes, calc_call.log_n))

NextLoadProof == LoadProof

SpecLoadProof == InitLoadProof /\ [][NextLoadProof]_vars

----------------------------------------------------------------------------
(* The claims of the design document, stated over the state machine.  A    *)
(* state with out # NoOut is one reached by a verify call: call holds the  *)
(* call's arguments and verifier the verifier it ran on.                   *)

\* C1: verify rejects with InvalidInput whenever the public-inputs blob
\* length is not a multiple of 32, or provided = len / 32 is neither
\* vk.public_inputs_size nor vk.public_inputs_size - 16 (when that is not
\* negative); for every other length neither of the two public-input errors
\* is returned.
C1_PublicInputsDiscipline ==
    out # NoOut =>
        LET len == call.pi.len
            provided == U64(len \div 32)
            vk_inputs == verifier.vk.public_inputs_size
            recursive == WideSub(vk_inputs, U64(PAIRING_POINTS_SIZE))
            undisciplined ==
                \/ len % 32 # 0
                \/ /\ provided # vk_inputs
                   /\ ~(U64Le(U64(PAIRING_POINTS_SIZE), vk_inputs)
                        /\ provided = recursive.val)
        IN  /\ undisciplined => out.result.kind = "InvalidInput"
            /\ ~undisciplined =>
                   out.result.reason \notin
                       {"public inputs must be 32-byte aligned",
                        "public inputs mismatch (vk vs provided)"}

\* C2: for every log_n read from the verification key, verify returns
\* InvalidInput("proof size mismatch") if and only if the proof blob length
\* differs from (75 + 11 * log_n) * 32, and it does so before the proof is
\* parsed and before any public-input check.  (A blob is shorter than 2^31
\* bytes, so no log_n of 2^20 or more has a blob of the matching length.)
C2_ProofSizeCheck ==
    out # NoOut =>
        LET log_n == SmallValue(verifier.vk.log_circuit_size)
            matching == /\ log_n >= 0
                        /\ log_n < 2 ^ 20
                        /\ call.proof.len = (75 + 11 * log_n) * 32
        IN  /\ out.result = InvalidInput("proof size mismatch") <=> ~matching
            /\ out.result = InvalidInput("proof size mismatch") =>
                   out.stages = <<"proof_size">>

\* The stages of verify in the order of the code.
StageOrder ==
    <<"proof_size", "load_proof", "pi_aligned", "pi_count", "transcript", "delta",
      "sumcheck", "shplemini">>

IsPrefix(s, t) == Len(s) <= Len(t) /\ \A i \in 1..Len(s) : s[i] = t[i]

\* The values the verify call of this state hands to its stages.
CallLogN == AsUsize(build, verifier.vk.log_circuit_size)
CallProof == load_proof(build, call.proof, CallLogN).proof
CallDelta(proof, t) ==
    compute_public_input_delta(build, call.pi, proof.pairing_point_object,
                               t.rel_params.beta, t.rel_params.gamma,
                               verifier.vk.pub_inputs_offset, verifier.vk.circuit_size)
CallTranscript(proof) ==
    LET provided == U64(call.pi.len \div 32)
        t == generate_transcript(salt, proof, call.pi, verifier.vk_hash,
                                 verifier.vk.circuit_size,
                                 WideAdd(provided, U64(PAIRING_POINTS_SIZE)).val,
                                 verifier.vk.pub_inputs_offset)
    IN  [t EXCEPT !.rel_params.public_inputs_delta = CallDelta(proof, t).val]

\* The result kind the first failing stage gives, the stages taken in the
\* order proof size, public inputs, delta, sum-check, Shplemini.
FirstFailingStageKind ==
    LET proof == CallProof
        t == CallTranscript(proof)
    IN  IF proof_size_mismatch(call.proof.len,
                               proof_bytes_for_log_n(build, verifier.vk.log_circuit_size).val)
        THEN "InvalidInput"
        ELSE IF \/ call.pi.len % 32 # 0
                \/ ~public_inputs_valid(verifier.vk.public_inputs_size,
                                        U64(call.pi.len \div 32))
        THEN "InvalidInput"
        ELSE IF CallDelta(proof, t).err # "" THEN "InvalidInput"
        ELSE IF verify_sumcheck(build, proof, t, verifier.vk).err # ""
        THEN "SumcheckFailed"
        ELSE IF verify_shplemini(proof, verifier.vk, t) # "" THEN "ShplonkFailed"
        ELSE "Ok"

\* C3: verify returns Ok only if the proof-size check, the public-input
\* checks, the delta computation, the sum-check and Shplemini all succeeded;
\* the stages run in that fixed order, the first failing stage determines the
\* error kind, and Shplemini is never evaluated when sum-check has failed.
C3_StagesInOrder ==
    out # NoOut =>
        /\ IsPrefix(out.stages, StageOrder)
        /\ out.result = Ok => out.stages = StageOrder
        /\ out.result.kind # "Panic" => out.result.kind = FirstFailingStageKind
        /\ out.sc.err # "" =>
               \A i \in 1..Len(out.stages) : out.stages[i] # "shplemini"

\* A verify call that went through every stage and returned Ok.
C3_Witness ==
    /\ out.result = Ok
    /\ out.stages = StageOrder
    /\ out.sc.ran

\* The value at x of the polynomial of degree below 8 that takes the values
\* u[0..7] at the points 0..7, by Lagrange's formula.
LagrangeAt(u, x) ==
    LET basis(i) ==
            LET numerator == [j \in Points |-> IF j = i THEN 1 ELSE FrSub(x, FrFromInt(j))]
                denominator == [j \in Points |-> IF j = i THEN 1 ELSE FrFromInt(i - j)]
            IN  FrMul(FrProduct(numerator, BATCHED_RELATION_PARTIAL_LENGTH - 1),
                      FrInverse(FrProduct(denominator, BATCHED_RELATION_PARTIAL_LENGTH - 1)))
    IN  FrSum([i \in Points |-> FrMul(u[i], basis(i))],
              BATCHED_RELATION_PARTIAL_LENGTH - 1)

\* The sum-check conditions of the design document for proof and transcript
\* tp over log_n rounds: round r's target, condition (a) at round r, and
\* condition (b).
RoundTarget(proof, tp, r) ==
    IF r = 0 THEN 0
    ELSE LagrangeAt(proof.sumcheck_univariates[r - 1], tp.sumcheck_u_challenges[r - 1])
RoundHolds(proof, tp, r) ==
    FrAdd(proof.sumcheck_univariates[r][0], proof.sumcheck_univariates[r][1])
        = RoundTarget(proof, tp, r)
PowPartial(tp, log_n) ==
    FrProduct([r \in 0..(log_n - 1) |->
                  FrAdd(1, FrMul(tp.sumcheck_u_challenges[r],
                                 FrSub(tp.gate_challenges[r], 1)))],
              log_n - 1)
GrandSumHolds(proof, tp, log_n) ==
    accumulate_relation_evaluations(proof.sumcheck_evaluations, tp.rel_params,
                                    tp.alphas, PowPartial(tp, log_n))
        = RoundTarget(proof, tp, log_n)

\* The rounds 0..r in order.
RoundsUpTo(r) == [i \in 1..(r + 1) |-> i - 1]
Min(S) == CHOOSE x \in S : \A y \in S : x <= y

\* C4 as stated: verify_sumcheck returns Ok if and only if (a) holds at every
\* round below log_n and (b) holds; a violation of (a) is reported as "round
\* failed" at the first failing round, with no later round examined; a
\* violation of (b) as "sumcheck final mismatch"; no round at log_n or above
\* is examined.
C4_SumcheckIff ==
    out.sc.ran =>
        LET proof == CallProof
            tp == CallTranscript(proof)
            log_n == SmallValue(CallLogN)
            failing == {r \in 0..(log_n - 1) : ~RoundHolds(proof, tp, r)}
        IN  /\ out.sc.err = "" <=> failing = {} /\ GrandSumHolds(proof, tp, log_n)
            /\ failing # {} =>
                   /\ out.sc.err = "round failed"
                   /\ out.sc.examined = RoundsUpTo(Min(failing))
            /\ failing = {} /\ ~GrandSumHolds(proof, tp, log_n) =>
                   out.sc.err = "sumcheck final mismatch"
            /\ \A i \in 1..Len(out.sc.examined) : out.sc.examined[i] < log_n

\* C4 amended: a round also stops the sum-check, with "denom zero", when (a)
\* holds at it and its challenge is one of the evaluation points 0..7.
\* verify_sumcheck returns Ok if and only if no round below log_n stops it
\* and (b) holds; the first stopping round gives the error and no later
\* round is examined.
C4_SumcheckIffNoPointChallenge ==
    out.sc.ran =>
        LET proof == CallProof
            tp == CallTranscript(proof)
            log_n == SmallValue(CallLogN)
            stopping == {r \in 0..(log_n - 1) :
                            \/ ~RoundHolds(proof, tp, r)
                            \/ tp.sumcheck_u_challenges[r] \in Points}
        IN  IF stopping = {}
            THEN /\ out.sc.err = IF GrandSumHolds(proof, tp, log_n) THEN ""
                                 ELSE "sumcheck final mismatch"
                 /\ out.sc.examined = RoundsUpTo(log_n - 1)
            ELSE /\ out.sc.err = IF ~RoundHolds(proof, tp, Min(stopping))
                                 THEN "round failed" ELSE "denom zero"
                 /\ out.sc.examined = RoundsUpTo(Min(stopping))

\* A two-round sum-check that examined both rounds and returned Ok.
C4_Witness ==
    /\ out.sc.ran
    /\ SmallValue(CallLogN) = 2
    /\ out.sc.err = ""
    /\ out.sc.examined = <<0, 1>>

\* The reasons of the design document's return contract.
ShplonkReasons == {"shplonk pairing check failed"}
ClosedReasons ==
    {"vk too short for hash prefix", "vk parse error", "proof size mismatch",
     "public inputs must be 32-byte aligned",
     "public inputs mismatch (vk vs provided)",
     "round failed", "denom zero", "sumcheck final mismatch"}
    \cup ShplonkReasons

\* A result that is a VerifyError value.
IsFailure(r) == r.kind \in {"InvalidInput", "SumcheckFailed", "ShplonkFailed"}

C6_BothVkForms ==
    /\ vk_blob # NoBlob
    /\ vk_blob.len \in {PrefixedLen, MIN_LEN}
    /\ vk_blob.log_circuit_size = BaseVk.log_circuit_size
    => new_out = Ok

\* C7: VK parsing is decided by length alone: new fails with "vk too short
\* for hash prefix" on fewer than 32 bytes, otherwise fails with "vk parse
\* error" if and only if the payload after the prefix is neither 1888 nor
\* 3680 bytes long, and succeeds on payloads of 1888 or 3680 bytes.
C7_VkParsingByLength ==
    vk_blob # NoBlob =>
        LET payload == vk_blob.len - 32
        IN  IF vk_blob.len < 32
            THEN new_out = InvalidInput("vk too short for hash prefix")
            ELSE /\ new_out = InvalidInput("vk parse error") <=>
                        payload \notin {1888, 3680}
                 /\ payload \in {1888, 3680} => new_out = Ok

\* C8: new followed by verify ends in Ok or in a VerifyError value and never
\* panics, whatever the VK blob, the proof blob and the public-inputs blob.
C8_NeverPanics ==
    /\ new_out.kind # "Panic"
    /\ out.result.kind # "Panic"

\* C9: any perturbation of the VK causes rejection.  Stated for the blobs
\* that differ from the accepted one in bytes of the header paddings or of
\* the trailing 1792 bytes of the 3680-byte variant alone: when verify has
\* accepted (vk, proof, pi), it does not accept the same proof and public
\* inputs under such a blob.
C9_VkPerturbationRejected ==
    /\ accepted # NoBlob
    /\ out.result = Ok
    /\ vk_blob.len = accepted.len
    /\ [vk_blob EXCEPT !.pad = 0, !.tail = 0] = [accepted EXCEPT !.pad = 0, !.tail = 0]
    => vk_blob = accepted

C12_EncodingByteExact ==
    /\ enc_v # NoU32 /\ enc_out = NoResult =>
        LET arr == bytes32_from_u32(enc_v)
        IN  /\ \A i \in 0..27 : arr[i] = 0
            /\ arr[28] * 256 + arr[29] = enc_v.hi
            /\ arr[30] * 256 + arr[31] = enc_v.lo
            /\ u32_from_be_bytes(arr[28], arr[29], arr[30], arr[31]) = enc_v
            /\ \A w \in U32Values : bytes32_from_u32(w) = arr => w = enc_v
    /\ enc_out # NoResult =>
        /\ enc_out = Ok <=> enc_bytes = bytes32_from_u32(enc_expected)
        /\ enc_expected = enc_v /\ enc_bytes # bytes32_from_u32(enc_v) =>
              enc_out = Err("Error", "UnexpectedTower")

\* The encoding of u32::MAX with one bit of byte 28 flipped, refused by the
\* check that expects u32::MAX.
C12_Witness ==
    /\ enc_v = U32Max
    /\ enc_expected = U32Max
    /\ enc_bytes = [bytes32_from_u32(U32Max) EXCEPT ![28] = 127]
    /\ enc_out = Err("Error", "UnexpectedTower")

\* vk_x = IC[0] + sum over i of input_i * IC[i+1], in the group.
RECURSIVE VkX(_, _, _)
VkX(ic, inputs, n) ==
    IF n = 0 THEN ic[1]
    ELSE (VkX(ic, inputs, n - 1) + (inputs[n] % GroupOrder) * ic[n + 1]) % GroupOrder

\* The Groth16 equation e(A,B) = e(alpha,beta) * e(vk_x,gamma) * e(C,delta)
\* on points of the groups, as an equation between exponents.
Groth16Equation(vk, proof, inputs) ==
    /\ Len(vk.ic) = Len(inputs) + 1
    /\ \A p \in {proof.a, proof.b, proof.c, vk.alpha_g1, vk.beta_g2, vk.gamma_g2,
                  vk.delta_g2} \cup {vk.ic[i] : i \in DOMAIN vk.ic} : p # OffCurve
    /\ (proof.a * proof.b) % GroupOrder =
          (vk.alpha_g1 * vk.beta_g2 + VkX(vk.ic, inputs, Len(inputs)) * vk.gamma_g2
           + proof.c * vk.delta_g2) % GroupOrder

ZkVerifyCalled == zk_call.op = "verify_groth16"
ZkVk == zk_vks[zk_call.circuit_id]

\* C13: verify_groth16 returns Ok(true) if and only if the pairing equation
\* holds with vk_x = IC[0] + sum of input_i * IC[i+1].  For the degenerate
\* VK the proof (G1, G2, O) with no inputs is accepted and the proofs with
\* A = 2*G1 or C = G1 are rejected with Ok(false); for IC = [O, G1] the
\* proof is accepted for input 0 and rejected for input 1.
C13_PairingIdentity ==
    ZkVerifyCalled =>
        /\ zk_out.result = OkValue(TRUE) <=>
              (ZkVk # NoVk /\ Groth16Equation(ZkVk, zk_call.proof, zk_call.public_inputs))
        /\ ZkVk = DegenerateVk /\ zk_call.public_inputs = <<>> =>
              /\ zk_call.proof = Groth16Proof(1, 1, 0) => zk_out.result = OkValue(TRUE)
              /\ zk_call.proof \in {Groth16Proof(2, 1, 0), Groth16Proof(1, 1, 1)} =>
                    zk_out.result = OkValue(FALSE)
        /\ ZkVk = OneInputVk /\ zk_call.proof = Groth16Proof(1, 1, 0) =>
              /\ zk_call.public_inputs = <<0>> => zk_out.result = OkValue(TRUE)
              /\ zk_call.public_inputs = <<1>> => zk_out.result = OkValue(FALSE)

\* A proof accepted under a VK whose points all differ, with two inputs.
C13_Witness ==
    /\ ZkVerifyCalled
    /\ ZkVk = Groth16Vk(2, 3, 1, 2, <<1, 2, 3>>)
    /\ zk_call.public_inputs = <<1, 1>>
    /\ zk_call.proof = Groth16Proof(2, 1, 0)
    /\ zk_out.result = OkValue(TRUE)
    /\ zk_out.ops = <<"g1_mul", "g1_add", "g1_mul", "g1_add", "pairing_check">>

\* C14: verify_groth16 returns Err(VkNotFound) when no VK is stored for
\* circuit_id; otherwise Err(PublicInputCountMismatch) if and only if
\* vk.ic.len() differs from public_inputs.len() + 1; in both error cases no
\* curve or pairing operation is made; in every other case it returns
\* Ok(bool).
C14_ErrorsThenOkBool ==
    ZkVerifyCalled =>
        IF ZkVk = NoVk
        THEN zk_out = [result |-> VerifierError("VkNotFound"), ops |-> <<>>]
        ELSE IF Len(ZkVk.ic) # Len(zk_call.public_inputs) + 1
        THEN zk_out = [result |-> VerifierError("PublicInputCountMismatch"), ops |-> <<>>]
        ELSE zk_out.result \in {OkValue(TRUE), OkValue(FALSE)}

ZkStoreCalled == zk_call.op = "store_vk"

\* What get_vk returns is the VK of the last store_vk the admin made.
ZkGetVkIsLastAdminStore ==
    /\ \A c \in CircuitIds :
          get_vk(zk_vks, c) =
              IF zk_last[c] = NoVk THEN VerifierError("VkNotFound") ELSE OkValue(zk_last[c])
    /\ zk_call.op = "get_vk" => zk_out.result = get_vk(zk_vks, zk_call.circuit_id)

\* C15 (as stated): store_vk called with an address different from the
\* admin fixed at construction returns NotAdmin and leaves every stored VK
\* unchanged; after any sequence of store_vk and verify_groth16 calls,
\* get_vk(circuit_id) returns the VK of the last successful admin store_vk.
C15_OnlyAdminStores ==
    /\ ZkStoreCalled /\ zk_call.admin # zk_admin =>
          /\ zk_out.result = VerifierError("NotAdmin")
          /\ zk_vks = zk_call.before
    /\ ZkGetVkIsLastAdminStore

\* C15 (amended): store_vk called with an address different from the admin
\* never succeeds and leaves every stored VK unchanged: it returns NotAdmin
\* when that address authorized the call and is aborted by require_auth when
\* it did not; a store_vk succeeds only with the admin's address and the
\* admin's authorization; get_vk returns the VK of the last such store_vk.
C15_OnlyAdminStoresOrAborts ==
    /\ ZkStoreCalled /\ zk_call.admin # zk_admin =>
          /\ zk_out.result =
                IF zk_call.signer = zk_call.admin THEN VerifierError("NotAdmin")
                ELSE HostTrap("require_auth")
          /\ zk_vks = zk_call.before
    /\ ZkStoreCalled /\ zk_out.result = Ok =>
          zk_call.admin = zk_admin /\ zk_call.signer = zk_admin
    /\ ZkStoreCalled /\ zk_out.result # Ok => zk_vks = zk_call.before
    /\ ZkGetVkIsLastAdminStore

\* An imposter who signed its own store_vk is refused while both circuits
\* hold VKs the admin stored.
C15_Witness ==
    /\ ZkStoreCalled
    /\ zk_call.admin = "imposter"
    /\ zk_call.signer = "imposter"
    /\ zk_call.vk = OneInputVk
    /\ zk_out.result = VerifierError("NotAdmin")
    /\ zk_vks = [c \in CircuitIds |-> DegenerateVk]

----------------------------------------------------------------------------
(* The game contract's claims.  A state with g_call # NoGameCall is one    *)
(* reached by a call: g_call holds the method and its arguments, g_out     *)
(* what it returned, g_before the storage before it and game the storage   *)
(* after it.                                                               *)

DispatcherActions == {"dispatch", "request_ping", "dispatcher_command", "recharge"}
AssassinActions ==
    {"submit_ping_proof", "submit_move_proof", "submit_multi_move_proof",
     "submit_turn_status_proof", "assassin_tick"}
DispatcherMethods == DispatcherActions \cup {"lock_secure_mode", "initialize_session_runtime"}
AssassinMethods == AssassinActions \cup {"commit_location"}

\* The last call was to a method with a caller, on an existing session.
RoleCall == g_call.method \in DispatcherMethods \cup AssassinMethods /\ g_before.core # NoSession
\* The player whose role the last call's method belongs to.
RoleOwner ==
    IF g_call.method \in DispatcherMethods THEN g_before.core.dispatcher
    ELSE g_before.core.assassin
\* The last call was a gameplay action made and signed by the player of its
\* role, or hide, which asks for no caller.
ByPlayer ==
    \/ g_call.method = "hide" /\ g_before.core # NoSession
    \/ /\ RoleCall
       /\ g_call.method \in DispatcherActions \cup AssassinActions \cup {"commit_location"}
       /\ g_call.caller = Caller(RoleOwner, RoleOwner)
Succeeded == g_out.kind = "Ok"

\* C16: once the session has ended, every gameplay action of a player fails
\* with GameAlreadyEnded and leaves the session runtime as it was.
C16_EndedBlocksActions ==
    (ByPlayer /\ g_before.rt.ended) =>
        (g_out = Error("GameAlreadyEnded") /\ game.rt = g_before.rt)

\* C17: a dispatcher action succeeds only in the Dispatcher phase and an
\* assassin action only in the Assassin phase; a player's action in the
\* wrong phase of a running game is rejected with NotDispatcherTurn or
\* NotAssassinTurn and leaves the session as it was.
C17_TurnOrder ==
    LET phase == IF g_call.method \in DispatcherActions THEN "Dispatcher" ELSE "Assassin"
        refusal == IF g_call.method \in DispatcherActions
                   THEN Error("NotDispatcherTurn") ELSE Error("NotAssassinTurn")
    IN  (RoleCall /\ g_call.method \in DispatcherActions \cup AssassinActions) =>
            /\ Succeeded => g_before.rt.phase = phase
            /\ (ByPlayer /\ ~g_before.rt.ended /\ g_before.rt.phase # phase) =>
                   (g_out = refusal /\ game = g_before)

\* The new_commitment of the last move the last call handed in.
LastNewCommitment ==
    IF g_call.method = "submit_move_proof" THEN g_call.new_commitment
    ELSE g_call.entries[Len(g_call.entries)].new_commitment

\* C18: while the turn counter holds a value, at most 1 move is accepted
\* when Chad is not hidden and at most 6 when he is; a move beyond the limit
\* fails with AlreadyMovedThisTurn; an accepted move sets the commitment to
\* its new_commitment.
C18_MoveLimit ==
    /\ game.rt # NoRuntime => g_moves <= MaxMoves(game.rt)
    /\ (g_call.method \in {"submit_move_proof", "submit_multi_move_proof"}
            /\ AcceptedMoves(g_call, g_out) > 0) =>
           game.core.commitment = Some(LastNewCommitment)
    /\ (g_call.method = "submit_move_proof" /\ ByPlayer /\ ~g_before.rt.ended
            /\ g_before.rt.phase = "Assassin" /\ ~g_before.rt.pending_ping_tower.some
            /\ g_before.rt.assassin_moves_this_turn >= MaxMoves(g_before.rt)) =>
           g_out = Error("AlreadyMovedThisTurn")

\* C19: after lock_secure_mode has succeeded, insecure_mode is false in
\* every later state.
C19_LockedStaysSecure == g_locked => ~game.core.insecure_mode

\* actor is the delegate of the scope stored for role.
IsDelegate(st, role, actor) == st.scopes[role] # NoScope /\ st.scopes[role].delegate = actor

\* The last call was made by someone who is neither the player of the
\* method's role nor the delegate of that role's stored scope.
ByOutsider ==
    LET role == IF g_call.method \in DispatcherMethods THEN "Dispatcher" ELSE "Assassin"
    IN  /\ RoleCall
        /\ g_call.caller.actor # RoleOwner
        /\ ~IsDelegate(g_before, role, g_call.caller.actor)

\* C20: a method of a role called by an actor who is neither the session's
\* player of that role nor the delegate of that role's stored scope fails
\* with SessionKeyNotAuthorized and changes nothing.
C20_RoleAuthorization ==
    ByOutsider => (g_out = Error("SessionKeyNotAuthorized") /\ game = g_before)

\* The delegate holds the assassin's key and calls a dispatcher method.
C20_Witness ==
    /\ ByOutsider
    /\ g_call.method = "recharge"
    /\ g_call.caller = Caller("delegate", "delegate")
    /\ IsDelegate(g_before, "Assassin", "delegate")
    /\ g_out = Error("SessionKeyNotAuthorized")

\* The flag a method hands to require_owner_or_delegate.
MethodFlag(method) ==
    CASE method \in {"dispatch", "request_ping", "dispatcher_command",
                     "initialize_session_runtime"} -> SESSION_METHOD_DISPATCH
      [] method = "recharge" -> SESSION_METHOD_RECHARGE
      [] method = "commit_location" -> SESSION_METHOD_COMMIT_LOCATION
      [] method = "submit_ping_proof" -> SESSION_METHOD_SUBMIT_PING_PROOF
      [] method \in {"submit_move_proof", "submit_multi_move_proof"} ->
             SESSION_METHOD_SUBMIT_MOVE_PROOF
      [] method = "submit_turn_status_proof" -> SESSION_METHOD_SUBMIT_TURN_STATUS_PROOF
      [] method = "assassin_tick" -> SESSION_METHOD_ASSASSIN_TICK
      [] method = "lock_secure_mode" -> SESSION_METHOD_LOCK_SECURE_MODE

\* The role of the last call's method and the scope stored for it.
CallRole == IF g_call.method \in DispatcherMethods THEN "Dispatcher" ELSE "Assassin"
CallScope == g_before.scopes[CallRole]

\* The last call was to a method of a role, made and signed by someone
\* other than the player of that role.
ByNonOwner ==
    /\ RoleCall
    /\ g_call.caller.actor # RoleOwner
    /\ g_call.caller.signer = g_call.caller.actor

\* The errors with which a session key is turned down.
KeyErrors ==
    {Error("SessionKeyNotAuthorized"), Error("SessionKeyRoleMismatch"),
     Error("SessionKeyExpired"), Error("SessionKeyMethodNotAllowed"),
     Error("SessionKeyWriteLimitExceeded")}

\* What the stored scope has against the last call's actor, Ok if nothing.
KeyRefusal ==
    IF ~IsDelegate(g_before, CallRole, g_call.caller.actor)
    THEN Error("SessionKeyNotAuthorized")
    ELSE IF g_before.ledger > CallScope.expires_ledger
    THEN Error("SessionKeyExpired")
    ELSE IF ~MaskAllows(CallScope.allow_mask, MethodFlag(g_call.method))
    THEN Error("SessionKeyMethodNotAllowed")
    ELSE IF ~(CallScope.max_writes = 0 \/ CallScope.writes_used < CallScope.max_writes)
    THEN Error("SessionKeyWriteLimitExceeded")
    ELSE Ok

\* C21: a call of a role method by someone other than the role's player is
\* let through exactly when the scope stored for the role names the actor
\* as delegate, the ledger sequence does not exceed expires_ledger, the
\* method's flag is in allow_mask, and max_writes is 0 or writes_used is
\* below it; otherwise it fails with SessionKeyNotAuthorized,
\* SessionKeyExpired, SessionKeyMethodNotAllowed or
\* SessionKeyWriteLimitExceeded respectively and changes nothing; a call
\* that was let through and succeeded has counted one write.  A
\* revoke_session_key by the role's player leaves no scope for the role, so
\* the former delegate is turned down until a new scope is stored.
C21_SessionKeyScope ==
    /\ ByNonOwner =>
          IF KeyRefusal # Ok THEN g_out = KeyRefusal /\ game = g_before
          ELSE /\ g_out \notin KeyErrors
               /\ g_out.kind # "Trap"
               /\ Succeeded =>
                     game.scopes[CallRole].writes_used = CallScope.writes_used + 1
    /\ (g_call.method = "revoke_session_key" /\ g_before.core # NoSession
            /\ g_call.signer = g_call.owner
            /\ g_call.owner = (IF g_call.role = "Dispatcher" THEN g_before.core.dispatcher
                               ELSE g_before.core.assassin)) =>
          (Succeeded /\ game.scopes[g_call.role] = NoScope)

\* The delegate's call is let through and succeeds in the last ledger of
\* its key, after a ledger has closed.
C21_Witness ==
    /\ ByNonOwner
    /\ KeyRefusal = Ok
    /\ Succeeded
    /\ g_before.ledger = CallScope.expires_ledger
    /\ g_before.ledger > LedgerSequence
    /\ CallScope.max_writes = KeyMaxWrites

\* The last call was a submit_ping_proof by the assassin in secure mode, in
\* the Assassin phase of a running game.
SecurePingCall ==
    /\ g_call.method = "submit_ping_proof"
    /\ g_before.core # NoSession
    /\ ~g_before.core.insecure_mode
    /\ g_call.caller = Caller(g_before.core.assassin, g_before.core.assassin)
    /\ ~g_before.rt.ended
    /\ g_before.rt.phase = "Assassin"

\* Public input idx of the last call is there and is the 32-byte big-endian
\* form of the u32 n.
Encodes(idx, n) ==
    /\ idx < Len(g_call.public_inputs)
    /\ g_call.public_inputs[idx + 1] = Field(0, n)

\* The tower of the last call is the pending one, is one of the four, and
\* public inputs 0 and 1 are its coordinates.
TowerBound ==
    /\ g_before.rt.pending_ping_tower = Some(g_call.tower_id)
    /\ g_call.tower_id \in 0..3
    /\ Encodes(0, ToU32(Towers[g_call.tower_id + 1].x))
    /\ Encodes(1, ToU32(Towers[g_call.tower_id + 1].y))

\* Public input 4 differs from an already stored commitment.
CommitmentDiffers ==
    /\ g_before.core.commitment.some
    /\ \/ Len(g_call.public_inputs) <= 4
       \/ g_call.public_inputs[5] # g_before.core.commitment.value

\* The errors the bindings of the last call's public inputs call for, with
\* commitment_fault saying that public input 4 is at fault.
PingFaults(commitment_fault) ==
    (IF TowerBound THEN {} ELSE {Error("UnexpectedTower")})
        \cup (IF Encodes(2, g_before.core.session_id) THEN {}
              ELSE {Error("ProofSessionMismatch")})
        \cup (IF Encodes(3, g_before.rt.turn) THEN {} ELSE {Error("ProofTurnMismatch")})
        \cup (IF commitment_fault THEN {Error("CommitmentMismatch")} ELSE {})
        \cup (IF Encodes(5, ToU32(g_call.d2)) THEN {} ELSE {Error("D2Mismatch")})

\* What the claim says of a secure ping proof whose faults are faults.
PingProofBound(faults) ==
    SecurePingCall =>
        IF faults # {} THEN g_out \in faults /\ game = g_before
        ELSE /\ g_out \in {OkValue(g_call.d2), Error("InvalidProof"), Error("VerifierNotSet")}
             /\ (g_out = Error("InvalidProof") => ~ProofOk(g_call.proof))
             /\ Succeeded =>
                   (game.rt.pending_ping_tower = None /\ game.rt.phase = "Assassin")

AlphaAfterStatus(c, s, d2_chad) ==
    IF d2_chad <= c.strong_radius_sq THEN SaturatingDec(s.alpha)
    ELSE IF U32Le(c.alpha_max, s.alpha) THEN c.alpha_max
    ELSE SaturatingInc(s.alpha)

\* The turn counter is one higher, the phase Dispatcher and the move
\* counters reset.
TurnAdvanced ==
    /\ game.rt.turn = SaturatingInc(g_before.rt.turn)
    /\ game.rt.turn # g_before.rt.turn
    /\ game.rt.phase = "Dispatcher"
    /\ ~game.rt.moved_this_turn
    /\ game.rt.assassin_moves_this_turn = 0

\* C23: submit_turn_status_proof succeeds only in the Assassin phase after
\* at least one accepted move, and the assassin's call without a move fails
\* with AssassinMustMove.  On success d2_chad = 0 ends the game; otherwise
\* alpha goes down by 1 within the strong radius and up by 1, capped at
\* alpha_max, beyond it; alpha 0 ends the game, and otherwise the turn
\* advances by exactly 1 with phase Dispatcher and the move counters reset.
\* In every state alpha <= alpha_max.
C23_TurnStatus ==
    /\ game.rt # NoRuntime => U32Le(game.rt.alpha, game.core.alpha_max)
    /\ (g_call.method = "submit_turn_status_proof" /\ g_before.core # NoSession) =>
          /\ Succeeded =>
                /\ g_before.rt.phase = "Assassin"
                /\ g_before.rt.assassin_moves_this_turn >= 1
                /\ IF g_call.d2_chad = 0 THEN game.rt.ended
                   ELSE /\ game.rt.alpha =
                              AlphaAfterStatus(g_before.core, g_before.rt, g_call.d2_chad)
                        /\ IF game.rt.alpha = U32Zero THEN game.rt.ended
                           ELSE TurnAdvanced /\ ~game.rt.ended
          /\ (ByPlayer /\ ~g_before.rt.ended /\ g_before.rt.phase = "Assassin"
                  /\ g_before.rt.assassin_moves_this_turn = 0) =>
                (g_out = Error("AssassinMustMove") /\ game = g_before)

\* The last call was an assassin_tick by the assassin in the Assassin phase
\* of a running game.
TickInPhase ==
    /\ g_call.method = "assassin_tick"
    /\ ByPlayer
    /\ ~g_before.rt.ended
    /\ g_before.rt.phase = "Assassin"

\* C24: assassin_tick succeeds only from the Assassin phase and then
\* advances the turn (turn + 1, phase Dispatcher, move counters reset); in
\* secure mode the assassin's tick without an accepted move fails with
\* AssassinMustMove and changes nothing, and in insecure mode it succeeds
\* without any move; the move counter counts only moves accepted while the
\* turn counter holds its value, so no call advances the turn of a secure
\* session unless a move was accepted in that turn.
C24_AssassinTick ==
    /\ game.rt # NoRuntime => game.rt.assassin_moves_this_turn <= g_moves
    /\ (g_call.method = "assassin_tick" /\ g_before.core # NoSession /\ Succeeded) =>
          (g_before.rt.phase = "Assassin" /\ TurnAdvanced)
    /\ (TickInPhase /\ ~g_before.core.insecure_mode
            /\ g_before.rt.assassin_moves_this_turn = 0) =>
          (g_out = Error("AssassinMustMove") /\ game = g_before)
    /\ (TickInPhase /\ g_before.core.insecure_mode) => Succeeded
    /\ (g_call # NoGameCall /\ g_before.rt # NoRuntime /\ game.rt.turn # g_before.rt.turn
            /\ ~g_before.core.insecure_mode) =>
          g_before.rt.assassin_moves_this_turn >= 1

\* A tick of a secure session advances the turn after an accepted move.
C24_Witness ==
    /\ TickInPhase
    /\ ~g_before.core.insecure_mode
    /\ g_before.rt.assassin_moves_this_turn >= 1
    /\ Succeeded
    /\ TurnAdvanced

\* The methods that go through dispatch, and the tower the last call asked
\* a ping of.
DispatchMethods == {"dispatch", "request_ping", "dispatcher_command"}
RequestedTower == IF g_call.method = "dispatcher_command" THEN 0 ELSE g_call.tower_id

\* C25: the battery stays within 0..100; a successful dispatch lowers it by
\* exactly 20, sets pending_ping_tower to the requested tower and the phase
\* to Assassin, and marks the session ended if the battery is then 0; the
\* dispatcher's dispatch in the Dispatcher phase of a running game with
\* battery < 20 fails with BatteryTooLow; a successful recharge sets the
\* battery to min(battery + 10, 100); move and status proofs leave the
\* battery as it was.
C25_Battery ==
    /\ game.rt # NoRuntime => (0 <= game.rt.battery /\ game.rt.battery <= BATTERY_MAX)
    /\ (g_call.method \in DispatchMethods /\ g_before.core # NoSession /\ Succeeded) =>
          /\ game.rt.battery + PING_COST = g_before.rt.battery
          /\ game.rt.pending_ping_tower = Some(RequestedTower)
          /\ game.rt.phase = "Assassin"
          /\ game.rt.battery = 0 => game.rt.ended
    /\ (g_call.method \in DispatchMethods /\ ByPlayer /\ ~g_before.rt.ended
            /\ g_before.rt.phase = "Dispatcher" /\ g_before.rt.battery < PING_COST) =>
          (g_out = Error("BatteryTooLow") /\ game = g_before)
    /\ (g_call.method = "recharge" /\ g_before.core # NoSession /\ Succeeded) =>
          game.rt.battery =
              (IF g_before.rt.battery + RECHARGE_AMOUNT <= BATTERY_MAX
               THEN g_before.rt.battery + RECHARGE_AMOUNT ELSE BATTERY_MAX)
    /\ (g_call.method \in {"submit_move_proof", "submit_multi_move_proof",
                           "submit_turn_status_proof"} /\ g_before.core # NoSession) =>
          game.rt.battery = g_before.rt.battery

\* The fifth dispatch empties the battery and ends the session.
C25_Witness ==
    /\ g_call.method = "dispatch"
    /\ Succeeded
    /\ g_before.rt.battery = PING_COST
    /\ game.rt.battery = 0
    /\ game.rt.ended

\* The last call was a dispatch by the dispatcher in the Dispatcher phase of
\* a running game with the battery for a ping.
DispatchInPhase ==
    /\ g_call.method = "dispatch"
    /\ ByPlayer
    /\ ~g_before.rt.ended
    /\ g_before.rt.phase = "Dispatcher"
    /\ g_before.rt.battery >= PING_COST

\* C26: chad_hide_streak never exceeds 2 and chad_hidden holds exactly when
\* it is at least 1; Hide at streak 2 is rejected with InvalidHide and
\* WalkGarden with a direction outside 0..3 with InvalidMove; a successful
\* Hide raises the streak by 1, and a successful Stay, WalkGarden or GoRoom
\* sets it to 0 and un-hides Chad; a dispatch rejected with InvalidHide,
\* InvalidMove or BatteryTooLow leaves battery, position and phase as they
\* were.
C26_HideStreak ==
    /\ game.rt # NoRuntime =>
          /\ game.rt.chad_hide_streak <= 2
          /\ game.rt.chad_hidden <=> game.rt.chad_hide_streak >= 1
    /\ (DispatchInPhase /\ g_call.command = ChadHide) =>
          IF g_before.rt.chad_hide_streak = 2 THEN g_out = Error("InvalidHide")
          ELSE Succeeded /\ game.rt.chad_hide_streak = g_before.rt.chad_hide_streak + 1
    /\ (DispatchInPhase /\ g_call.command.kind = "WalkGarden"
            /\ g_call.command.dir \notin 0..3) => g_out = Error("InvalidMove")
    /\ (g_call.method = "dispatch" /\ g_before.core # NoSession /\ Succeeded
            /\ g_call.command.kind \in {"Stay", "WalkGarden", "GoRoom"}) =>
          (game.rt.chad_hide_streak = 0 /\ ~game.rt.chad_hidden)
    /\ (g_call.method = "dispatch" /\ g_before.core # NoSession
            /\ g_out \in {Error("InvalidHide"), Error("InvalidMove"),
                          Error("BatteryTooLow")}) =>
          /\ game.rt.battery = g_before.rt.battery
          /\ game.rt.chad_x = g_before.rt.chad_x /\ game.rt.chad_y = g_before.rt.chad_y
          /\ game.rt.phase = g_before.rt.phase
          /\ game = g_before

\* The third Hide in a row is rejected and changes nothing.
C26_Witness ==
    /\ DispatchInPhase
    /\ g_call.command = ChadHide
    /\ g_before.rt.chad_hide_streak = 2
    /\ g_before.rt.chad_hidden
    /\ g_out = Error("InvalidHide")
    /\ game = g_before

\* prod_{j # i} (i - j), as an integer
RECURSIVE PointDifferences(_, _)
PointDifferences(i, j) ==
    IF j > BATCHED_RELATION_PARTIAL_LENGTH - 1 THEN 1
    ELSE (IF j = i THEN 1 ELSE i - j) * PointDifferences(i, j + 1)

\* compute_next_target_sum has run on a challenge outside 0..7.
TargetSumComputed ==
    /\ calc_call.op = "compute_next_target_sum"
    /\ calc_out # NoResult
    /\ calc_call.round_challenge \notin {FrFromInt(i) : i \in Points}

\* C27: for a challenge chi outside 0..7, compute_next_target_sum(u, chi)
\* is the value at chi of the polynomial of degree at most 7 that takes the
\* value u[i] at i: of its Lagrange form, and of the polynomial whose
\* evaluations u are.  BARY_BYTES[i] is the product over j # i of (i - j):
\* -5040, 720, -240, 144, -144, 240, -720, 5040.
C27_NextTargetSum ==
    /\ \A i \in Points :
          /\ FrBytesAsInt(BARY_BYTES[i + 1]) = PointDifferences(i, 0)
          /\ FrBytesAsInt(BARY_BYTES[i + 1])
                 = <<-5040, 720, -240, 144, -144, 240, -720, 5040>>[i + 1]
    /\ TargetSumComputed =>
          /\ calc_out.err = ""
          /\ calc_out.val = LagrangeAt(calc_call.round_univariate, calc_call.round_challenge)
          /\ calc_out.val = Horner(calc_call.polynomial, calc_call.round_challenge, 0)

\* The round of x^7 + 57 x^3 at a challenge where it is not zero.
C27_Witness ==
    /\ TargetSumComputed
    /\ calc_call.polynomial[7] = 1
    /\ calc_call.polynomial[3] = 57
    /\ calc_call.round_challenge = 50
    /\ calc_out.err = ""
    /\ calc_out.val # 0

\* The denominators BARY[i] * (chi - i) of the round's challenge.
RoundDenoms ==
    [i \in Points |->
        FrMul(BARY(i), FrSub(calc_call.round_challenge, FrFromInt(i)))]
SomeDenomZero == \E i \in Points : RoundDenoms[i] = 0

\* compute_next_target_sum has run.
TargetSumReturned ==
    /\ calc_call.op = "compute_next_target_sum"
    /\ calc_out # NoResult

\* C28: when all eight denominators are nonzero the batch inversion gives
\* inv[i] with denoms[i] * inv[i] = 1 for every i in 0..7;
\* compute_next_target_sum fails with "denom zero" exactly when some
\* denominator is zero, which is exactly when the challenge is one of 0..7.
C28_BatchInversion ==
    TargetSumReturned =>
        /\ ~SomeDenomZero =>
               \A i \in Points :
                   FrMul(RoundDenoms[i], batch_inverses(RoundDenoms)[i]) = 1
        /\ calc_out.err = "denom zero" <=> SomeDenomZero
        /\ calc_out.err \in {"", "denom zero"}
        /\ SomeDenomZero <=> calc_call.round_challenge \in {FrFromInt(i) : i \in Points}

\* A round whose eight denominators are nonzero and pairwise different, so
\* that eight different inverses are recovered from the one inversion.
C28_Witness ==
    /\ TargetSumReturned
    /\ calc_out.err = ""
    /\ ~SomeDenomZero
    /\ \A i, j \in Points : i # j => RoundDenoms[i] # RoundDenoms[j]
    /\ \A i \in Points : RoundDenoms[i] # 1

\* compute_public_input_delta has run.
DeltaReturned ==
    /\ calc_call.op = "compute_public_input_delta"
    /\ calc_out # NoResult

\* pi_0 .. pi_{m-1}: the public inputs in blob order, then the pairing point
\* object.
DeltaSequence == calc_call.public_inputs.words \o calc_call.pairing_point_object

\* gamma + beta * (2^28 + offset + k) + pi_k, the integer 2^28 + offset + k
\* taken into the field without wrapping.
NumeratorFactor(k) ==
    FrAdd(FrAdd(calc_call.gamma,
                FrMul(calc_call.beta,
                      FrAdd(FrAdd(FrFromU64(U64Pow2(28)), FrFromU64(calc_call.offset)),
                            FrFromInt(k)))),
          DeltaSequence[k + 1])

\* gamma - beta * (offset + 1 + k) + pi_k
DenominatorFactor(k) ==
    FrAdd(FrSub(calc_call.gamma,
                FrMul(calc_call.beta,
                      FrAdd(FrAdd(FrFromU64(calc_call.offset), 1), FrFromInt(k)))),
          DeltaSequence[k + 1])

DeltaNumerator ==
    FrProduct([k \in 0..(Len(DeltaSequence) - 1) |-> NumeratorFactor(k)],
              Len(DeltaSequence) - 1)
DeltaDenominator ==
    FrProduct([k \in 0..(Len(DeltaSequence) - 1) |-> DenominatorFactor(k)],
              Len(DeltaSequence) - 1)

\* C29: compute_public_input_delta returns numerator / denominator, the
\* products over k of gamma + beta * (2^28 + offset + k) + pi_k and of
\* gamma - beta * (offset + 1 + k) + pi_k, where pi is the public inputs in
\* blob order followed by the 16 elements of the pairing point object; it
\* returns an error and no value when the denominator is zero; and the
\* circuit size n has no influence on what it returns.
C29_PublicInputDelta ==
    DeltaReturned =>
        /\ ~calc_out.panic
        /\ IF DeltaDenominator = 0
           THEN calc_out.err # ""
           ELSE /\ calc_out.err = ""
                /\ calc_out.val = FrMul(DeltaNumerator, FrInverse(DeltaDenominator))
        /\ \A n \in CircuitSizes :
               compute_public_input_delta(build, calc_call.public_inputs,
                   calc_call.pairing_point_object, calc_call.beta, calc_call.gamma,
                   calc_call.offset, n) = calc_out

\* load_proof has run.
LoadProofReturned ==
    /\ calc_call.op = "load_proof"
    /\ calc_out # NoResult

\* C30: for every log_n in 1..CONST_PROOF_SIZE_LOG_N,
\* proof_bytes_for_log_n(log_n) is (75 + 11 * log_n) * 32, and load_proof on
\* a blob of that length reads 16 + 8*2 + 8*log_n + 41 + 2*(log_n - 1)
\* + log_n + 2*2 words of 32 bytes: the parse ends exactly at the end of the
\* blob and no read goes past it.
C30_ProofSize ==
    LoadProofReturned =>
        LET log_n == SmallValue(calc_call.log_n)
            expected == proof_bytes_for_log_n(build, calc_call.log_n)
        IN  /\ log_n \in 1..CONST_PROOF_SIZE_LOG_N
            /\ ~expected.panic
            /\ expected.val = U64((75 + 11 * log_n) * 32)
            /\ ~calc_out.panic
            /\ calc_out.boundary
                   = 16 + 8 * 2 + 8 * log_n + 41 + 2 * (log_n - 1) + log_n + 2 * 2
            /\ U64(32 * calc_out.boundary) = expected.val
            /\ 32 * calc_out.boundary = calc_call.proof_bytes.len
            /\ InBlob(calc_call.proof_bytes, calc_out.boundary - 1)
            /\ ~InBlob(calc_call.proof_bytes, calc_out.boundary)

\* The largest proof, of CONST_PROOF_SIZE_LOG_N rounds, parsed to its end:
\* the words found at the places of the blob's layout.
C30_Witness ==
    /\ LoadProofReturned
    /\ calc_call.log_n = U64(CONST_PROOF_SIZE_LOG_N)
    /\ ~calc_out.panic
    /\ calc_out.boundary = 75 + 11 * CONST_PROOF_SIZE_LOG_N
    /\ calc_call.proof_bytes.g = 57
    /\ calc_out.proof.shplonk_q = <<57, 0>>
    /\ calc_out.proof.gemini_a_evaluations[0] = 57
    /\ calc_out.proof.sumcheck_evaluations[2] = 1
    /\ calc_out.proof.sumcheck_univariates[CONST_PROOF_SIZE_LOG_N - 1][1] = FrFromInt(-1)

====
